---- MODULE Spec2Model ----
(***************************************************************************)
(* Data Llama: the research-and-synthesis pipeline.                        *)
(*                                                                         *)
(* Time is counted in ticks (TicksPerSecond ticks to a second).  Code that *)
(* neither sleeps nor waits for the network takes no time: the clock moves *)
(* only while some thread is inside time.sleep or inside requests.post.    *)
(* Every thread runs the same code; a specification chooses in its initial *)
(* state which threads are active and which entry point each one drives.   *)
(***************************************************************************)
EXTENDS Integers, Sequences, FiniteSets, TLC

(* ------------------------------ bounds -------------------------------- *)
\* Clock resolution: ticks per second.
TicksPerSecond == 2
\* Longest time, in ticks, an outbound request stays unanswered.
MaxLatency == 1
\* Largest Retry-After hint, in seconds, the provider sends (besides none).
MaxHint == 1
\* Logical calls one thread's driver makes.
MaxCalls == 1
\* Threads of the host.
NThreads == 2
MaxOrganic == 3
MaxTopK == 3
MaxJobs == 1
\* the largest num_results a caller of its own hands to serper_search
MaxResults == 3
\* /ask requests one thread is given
MaxAsks == 1
\* documents in a list handed to build_citation_list
MaxDocs == 2
\* documents in a list handed to synthesize_from_sources
MaxSources == 4

(* ---------------------- app/synthesizer.py constants ------------------- *)
DEFAULT_MODEL == "google/gemini-2.0-flash-exp:free"

AVAILABLE_MODELS ==
    { "x-ai/grok-4-fast:free",
      "deepseek/deepseek-chat-v3.1:free",
      "deepseek/deepseek-chat-v3-0324:free",
      "microsoft/mai-ds-r1:free",
      "meta-llama/llama-3.3-70b-instruct:free",
      "google/gemini-2.0-flash-exp:free",
      "openai/gpt-oss-20b:free",
      "mistralai/mistral-small-3.2-24b-instruct:free",
      "google/gemma-3-27b-it:free",
      "mistralai/mistral-7b-instruct:free" }

RATE_LIMIT_DELAY == 2
MAX_RETRIES == 3
BACKOFF_FACTOR == 2
\* The literal 2 of time.sleep((BACKOFF_FACTOR ** attempt) * 2).
BACKOFF_BASE == 2
\* int(resp.headers.get('Retry-After', 60))
DEFAULT_RETRY_AFTER == 60

(* ------------------------------ helpers ------------------------------- *)
Min(a, b) == IF a <= b THEN a ELSE b
Max(a, b) == IF a >= b THEN a ELSE b

RECURSIVE Pow(_, _)
Pow(b, e) == IF e = 0 THEN 1 ELSE b * Pow(b, e - 1)

Seconds(s) == s * TicksPerSecond

Threads == 1 .. NThreads

\* Python's None, as a model id.
None == "None"

\* The model ids a caller passes: missing, empty, catalog ids, unknown ids.
ModelInputs ==
    { None, "", DEFAULT_MODEL, "x-ai/grok-4-fast:free",
      "anthropic/claude-3.5-sonnet" }

(* -------------------------- Model Registry ---------------------------- *)
\* A slip: an id outside the catalog is returned as it came.
validate_model_unchecked(model_id) ==
    IF model_id = None \/ model_id = "" THEN DEFAULT_MODEL
    ELSE model_id

validate_model(model_id) ==
    IF model_id = None \/ model_id = "" THEN DEFAULT_MODEL
    ELSE IF model_id \notin AVAILABLE_MODELS THEN DEFAULT_MODEL
    ELSE model_id

get_model_config(model_id) == validate_model(model_id)

(* -------------------------------- text -------------------------------- *)
\* A string is a sequence of tokens: a word, a digit or a mark.
Digits == << "0", "1", "2", "3", "4", "5", "6", "7", "8", "9" >>

RECURSIVE Decimal(_)
\* str(n) for n >= 0
Decimal(n) ==
    IF n < 10 THEN << Digits[n + 1] >>
    ELSE Decimal(n \div 10) \o << Digits[(n % 10) + 1] >>

\* The en dash of the listing format and the em dash of a citation.
EN_DASH == "en-dash"
EM_DASH == "em-dash"

Marks == { " ", ".", "-", EN_DASH, EM_DASH, "[", "]", ":", "//", "/", "\n" }

DigitSet == { Digits[i] : i \in 1 .. 10 }

DigitValue(d) == CHOOSE k \in 0 .. 9 : Digits[k + 1] = d

\* int(text) for a text of the tokens above: the number written in decimal
\* digits, and -1 where Python raises ValueError (no digits, or another
\* character).
RECURSIVE int(_)
int(text) ==
    IF text = << >> \/ text[Len(text)] \notin DigitSet THEN -1
    ELSE IF Len(text) = 1 THEN DigitValue(text[1])
    ELSE LET rest == int(SubSeq(text, 1, Len(text) - 1))
         IN  IF rest < 0 THEN -1
             ELSE rest * 10 + DigitValue(text[Len(text)])

\* The first index i >= from with s[i] in set, or Len(s) + 1.
RECURSIVE Find(_, _, _)
Find(s, set, from) ==
    IF from > Len(s) THEN Len(s) + 1
    ELSE IF s[from] \in set THEN from
    ELSE Find(s, set, from + 1)

\* urlparse(url).scheme: the word before the first ":"
Scheme(url) ==
    IF Len(url) >= 2 /\ url[2] = ":" /\ url[1] \notin Marks
       /\ url[1] \notin DigitSet
    THEN url[1] ELSE ""

\* urlparse(url).netloc: what follows "//" up to the next "/"
Netloc(url) ==
    LET start == IF Scheme(url) = "" THEN 1 ELSE 3
    IN  IF Len(url) >= start /\ url[start] = "//"
        THEN SubSeq(url, start + 1, Find(url, { "/" }, start + 1) - 1)
        ELSE << >>

is_valid_url(url) ==
    /\ Scheme(url) # ""
    /\ Netloc(url) # << >>
    /\ Scheme(url) \in { "http", "https" }

Spaces == { " ", "\n" }

\* The first index i >= from with s[i] not in set, or Len(s) + 1.
RECURSIVE FindNot(_, _, _)
FindNot(s, set, from) ==
    IF from > Len(s) THEN Len(s) + 1
    ELSE IF s[from] \notin set THEN from
    ELSE FindNot(s, set, from + 1)

\* The last index i <= from with s[i] not in set, or 0.
RECURSIVE FindLastNot(_, _, _)
FindLastNot(s, set, from) ==
    IF from < 1 THEN 0
    ELSE IF s[from] \notin set THEN from
    ELSE FindLastNot(s, set, from - 1)

\* s.lstrip(chars), s.rstrip(chars) and s.strip()
LStrip(s, chars) == SubSeq(s, FindNot(s, chars, 1), Len(s))

RStrip(s, chars) == SubSeq(s, 1, FindLastNot(s, chars, Len(s)))

Strip(s) == RStrip(LStrip(s, Spaces), Spaces)

\* Whether old stands in s at index i.
StartsAt(s, old, i) ==
    /\ i + Len(old) - 1 <= Len(s)
    /\ SubSeq(s, i, i + Len(old) - 1) = old

\* s.replace("", new) from index i on: new before every token and at the end
RECURSIVE Interleave(_, _, _)
Interleave(s, new, i) ==
    IF i > Len(s) THEN new
    ELSE new \o << s[i] >> \o Interleave(s, new, i + 1)

\* s.replace(old, new) from index i on, old not empty
RECURSIVE ReplaceFrom(_, _, _, _)
ReplaceFrom(s, old, new, i) ==
    IF i > Len(s) THEN << >>
    ELSE IF StartsAt(s, old, i)
         THEN new \o ReplaceFrom(s, old, new, i + Len(old))
         ELSE << s[i] >> \o ReplaceFrom(s, old, new, i + 1)

\* s.replace(old, new)
Replace(s, old, new) ==
    IF old = << >> THEN Interleave(s, new, 1) ELSE ReplaceFrom(s, old, new, 1)

\* s.splitlines(), from index i on
RECURSIVE SplitFrom(_, _)
SplitFrom(s, i) ==
    IF i > Len(s) THEN << >>
    ELSE << SubSeq(s, i, Find(s, { "\n" }, i) - 1) >>
         \o SplitFrom(s, Find(s, { "\n" }, i) + 1)

SplitLines(s) == SplitFrom(s, 1)

\* The stripped content of a well-formed 200 response: nothing, an answer with
\* the citation markers [1] and [2], or a listing of articles (a numbered
\* line in the asked format, a line with a bare URL and a word, a line
\* without a URL).
Listing ==
    << "1", ".", " ", "A", " ", EN_DASH, " ", "https", ":", "//", "a", "\n",
       "http", ":", "//", "b", " ", "B", "\n",
       "none" >>

Answer == << "answer", " ", "[", "1", "]", " ", "[", "2", "]" >>

Contents == { << >>, Answer, Listing }

(* ------------------------------- state -------------------------------- *)
VARIABLES
    clock,              \* time.time(), in ticks
    last_request_time,  \* rate_limiter.last_request_time
    request_count,      \* rate_limiter.request_count
    api_key,            \* whether OPENROUTER_API_KEY is set
    moods,              \* the behaviours the LLM provider of this run can show
    provider,           \* what the LLM provider answers during this logical call
    active,             \* the threads this run uses
    serper_key,         \* whether SERPER_API_KEY is set
    search_throws,      \* serper_search is replaced by a double that raises
    search_provider,    \* what the search endpoint of this run can answer
    organic_lists,      \* the organic results its 200 answers can carry
    extract_provider,   \* what the extraction endpoint of this run can answer
    article_fetch,      \* what the direct article fetch of this run can meet
    pc,                 \* pc[t]: where thread t stands
    stack,              \* stack[t]: the call_openrouter frames of thread t
    wake,               \* wake[t]: what is left of t's sleep, or of its request's time
    current_time,       \* wait_if_needed's local of thread t
    loaded,             \* the request_count thread t read for its += 1
    gated,              \* t passed wait_if_needed and has not posted since
    result,             \* result[t]: outcome of t's last logical call
    calls,              \* calls[t]: logical calls t's driver has made
    ret,                \* ret[t]: where t goes on when call_openrouter ends
    job,                \* job[t]: the researcher_job thread t runs or ran last
    jobs,               \* jobs[t]: researcher_job calls t's driver has made
    traffic,            \* traffic[t]: the services t has sent a request to since
                        \* its caller's last call
    req,                \* req[t]: the /ask request thread t handles or handled last
    asks,               \* asks[t]: /ask requests thread t has been given
    documents,          \* the documents handed to build_citation_list
    cited,              \* what build_citation_list made of them
    markup,             \* a text handed to format_superscripts, and what came back
    synthesis,          \* a call of synthesize_from_sources on documents by a
                        \* caller of its own, and the dict it returned
    tally,              \* tally[t]: what t's logical call of call_openrouter has
                        \* done so far
    outbound            \* the last two outbound LLM requests, oldest first

vars == << clock, last_request_time, request_count, api_key, moods, provider,
           active,
           serper_key, search_throws, search_provider, organic_lists,
           extract_provider, article_fetch, pc, stack, wake, current_time, loaded, gated, result,
           calls, ret, job, jobs, traffic, req, asks, documents, cited,
           markup, synthesis, tally, outbound >>

limiter == << last_request_time, request_count >>
locals == << current_time, loaded >>
setup == << api_key, moods, active, serper_key, search_throws,
           search_provider, organic_lists, extract_provider, article_fetch >>
env == << setup, provider >>
research == << job, jobs, traffic >>
front == << req, asks, documents, cited, markup, synthesis >>
outer == << calls, ret, research, front >>

\* What one outbound request can meet.
Outcomes ==
    { "ok", "malformed", "s400", "s401", "s402", "s429", "s5xx", "s4xx",
      "other", "timeout", "connection" }

\* A Retry-After header that gives a date (RFC 9110, section 10.2.3): the one
\* that lies n seconds past an answer dated 07:28:00, n below ten.
HttpDate(n) ==
    << "Wed, 21 Oct 2015 07:28:0" >> \o Decimal(n) \o << " GMT" >>

\* The Retry-After header of an answer: seconds in decimal digits, a date, or
\* no header at all (the empty text stands for the absent header).
Hints ==
    { Decimal(n) : n \in 0 .. MaxHint } \cup { << >> }
        \cup { HttpDate(n) : n \in 0 .. MaxHint }

\* random.uniform(0, 1), in ticks: a value in [0, 1) seconds.
Jitters == 0 .. (TicksPerSecond - 1)


\* origin: "model" (a provider answer), "fallback" (the canned text), "exception"
\* (text is then the message of the exception)
NoResult == [ status |-> "none", text |-> << >>, origin |-> "none" ]

\* A question is leading blanks, a body that neither starts nor ends with a
\* blank, and trailing blanks; body is the length of the body and topic what
\* the body is about.
NoQuestion == [ lead |-> 0, body |-> 0, trail |-> 0, topic |-> "" ]

NoRequest ==
    [ status |-> "none", question |-> NoQuestion, model |-> None,
      selected_model |-> None, result |-> [ none |-> TRUE ],
      response |-> [ ok |-> FALSE, error_type |-> "none" ] ]

\* given is the list of documents as the first call got it; again tells
\* that build_citation_list was called once more, and second is what that
\* call returned.
NoCited ==
    [ done |-> FALSE, list |-> << >>, given |-> << >>, again |-> FALSE,
      second |-> << >> ]

NoMarkup == [ done |-> FALSE, text |-> << >>, formatted |-> << >> ]

NoSynthesis == [ status |-> "none", model |-> None, result |-> [ none |-> TRUE ] ]

\* What a logical call of call_openrouter has done: the budget and the model
\* it was entered with, the requests it has sent, the times it has turned to
\* the default model after a 400, whether the model it was entered with was
\* requested after such a turn, whether a 401, a 402 or a 400 on the default
\* model was met and whether a request followed it, the backoff sleeps, and
\* what its latest request met, with the Retry-After header of that answer,
\* and whether an attempt has ended with an error status or an exception;
\* waits counts the calls of wait_if_needed the thread has completed, in this
\* logical call and before it.
NoTrail ==
    [ budget |-> 0, first |-> None, posts |-> 0, switches |-> 0,
      back |-> FALSE, fatal |-> FALSE, retried |-> FALSE, sleeps |-> 0,
      last |-> "none", hint |-> << >>, erred |-> FALSE, waits |-> 0 ]

\* Thread t sends a request to a service.
Contact(t, service) == traffic' = [ traffic EXCEPT ![t] = @ \cup { service } ]

Frame(model, max_retries) ==
    [ model |-> model, attempt |-> 0, max_retries |-> max_retries ]

Top(stk) == stk[Len(stk)]
Pop(stk) == SubSeq(stk, 1, Len(stk) - 1)
SetTop(stk, f) == [ stk EXCEPT ![Len(stk)] = f ]

(* ------------------------- RateLimitedClient -------------------------- *)
\* A slip: sleeps for the time already elapsed instead of the time remaining.
GateSleepElapsed(now, lastTime) ==
    IF now - lastTime < Seconds(RATE_LIMIT_DELAY)
    THEN now - lastTime
    ELSE 0

\* time.sleep(RATE_LIMIT_DELAY - time_since_last), when it is positive.
GateSleep(now, lastTime) ==
    IF now - lastTime < Seconds(RATE_LIMIT_DELAY)
    THEN Seconds(RATE_LIMIT_DELAY) - (now - lastTime)
    ELSE 0

\* current_time = time.time(); time_since_last = ...; the if; time.sleep
WaitRead(t) ==
    /\ pc[t] = "wait_read"
    /\ current_time' = [ current_time EXCEPT ![t] = clock ]
    /\ LET sleep_time == GateSleep(clock, last_request_time)
       IN  IF sleep_time > 0
           THEN /\ pc' = [ pc EXCEPT ![t] = "wait_sleep" ]
                /\ wake' = [ wake EXCEPT ![t] = sleep_time ]
           ELSE /\ pc' = [ pc EXCEPT ![t] = "wait_stamp" ]
                /\ UNCHANGED wake
    /\ UNCHANGED << clock, limiter, env, tally, stack, loaded, gated,
                    result, outer, outbound >>

\* time.sleep returns
WaitSleep(t) ==
    /\ pc[t] = "wait_sleep"
    /\ wake[t] = 0
    /\ pc' = [ pc EXCEPT ![t] = "wait_stamp" ]
    /\ wake' = [ wake EXCEPT ![t] = 0 ]
    /\ UNCHANGED << clock, limiter, env, tally, stack, locals,
                    gated, result, outer, outbound >>

\* self.last_request_time = time.time()
WaitStamp(t) ==
    /\ pc[t] = "wait_stamp"
    /\ last_request_time' = clock
    /\ pc' = [ pc EXCEPT ![t] = "wait_load" ]
    /\ UNCHANGED << clock, request_count, env, tally, stack, wake,
                    locals, gated, result, outer, outbound >>

\* self.request_count += 1: the read
WaitLoad(t) ==
    /\ pc[t] = "wait_load"
    /\ loaded' = [ loaded EXCEPT ![t] = request_count ]
    /\ pc' = [ pc EXCEPT ![t] = "wait_store" ]
    /\ UNCHANGED << clock, limiter, env, tally, stack, wake,
                    current_time, gated, result, outer, outbound >>

\* self.request_count += 1: the write; wait_if_needed returns
WaitStore(t) ==
    /\ pc[t] = "wait_store"
    /\ request_count' = loaded[t] + 1
    /\ gated' = [ gated EXCEPT ![t] = TRUE ]
    /\ pc' = [ pc EXCEPT ![t] = "headers" ]
    /\ current_time' = [ current_time EXCEPT ![t] = 0 ]
    /\ loaded' = [ loaded EXCEPT ![t] = 0 ]
    /\ tally' = [ tally EXCEPT ![t].waits = @ + 1 ]
    /\ UNCHANGED << clock, last_request_time, env, stack, wake,
                    result, outer, outbound >>

(* --------------------------- call_openrouter -------------------------- *)
\* generate_fallback_response: a fixed text naming the model, never empty.
generate_fallback_response(model_id) ==
    << "apology", get_model_config(model_id) >>

\* (BACKOFF_FACTOR ** attempt) * 2, in ticks
Backoff(attempt) == Seconds(Pow(BACKOFF_FACTOR, attempt) * BACKOFF_BASE)

\* min(retry_after, (BACKOFF_FACTOR ** attempt) * RATE_LIMIT_DELAY) + jitter
RateLimitWait(retry_after, attempt, jitter) ==
    Seconds(Min(retry_after, Pow(BACKOFF_FACTOR, attempt) * RATE_LIMIT_DELAY))
        + jitter

\* An exception reaches "except Exception" of the top frame: sleep and go on
\* while attempts remain, else re-raise into the calling frame, whose own
\* "except Exception" (the recursive call stands inside its try) does the same.
RECURSIVE Unwind(_)
Unwind(stk) ==
    IF stk = << >> THEN [ stack |-> << >>, raised |-> TRUE, sleep |-> 0 ]
    ELSE IF Top(stk).attempt < Top(stk).max_retries - 1
         THEN [ stack |-> stk, raised |-> FALSE,
                sleep |-> Backoff(Top(stk).attempt) ]
         ELSE Unwind(Pop(stk))

\* The effect of an exception e on thread t whose frames are stk.
Throw(t, stk, e) ==
    LET u == Unwind(stk)
    IN  /\ stack' = [ stack EXCEPT ![t] = u.stack ]
        /\ IF u.raised
           THEN /\ result' = [ result EXCEPT ![t] =
                                 [ status |-> "raised", text |-> e,
                                   origin |-> "exception" ] ]
                /\ pc' = [ pc EXCEPT ![t] = ret[t] ]
                /\ wake' = [ wake EXCEPT ![t] = 0 ]
           ELSE /\ pc' = [ pc EXCEPT ![t] = "backoff" ]
                /\ wake' = [ wake EXCEPT ![t] = u.sleep ]
                /\ UNCHANGED result

\* time.sleep(...); continue
Continue(t, ticks) ==
    /\ pc' = [ pc EXCEPT ![t] = "backoff" ]
    /\ wake' = [ wake EXCEPT ![t] = ticks ]
    /\ UNCHANGED << stack, result >>

\* return <text>: every frame returns it (return call_openrouter(...)).
ReturnText(t, text, origin) ==
    /\ stack' = [ stack EXCEPT ![t] = << >> ]
    /\ result' = [ result EXCEPT ![t] =
                     [ status |-> "returned", text |-> text, origin |-> origin ] ]
    /\ pc' = [ pc EXCEPT ![t] = ret[t] ]
    /\ wake' = [ wake EXCEPT ![t] = 0 ]

\* call_openrouter(messages, model_id, max_retries) is entered; thread t goes
\* on at label when it ends. The provider shows one of its behaviours.
Invoke(t, model_id, max_retries, label) ==
    /\ provider' \in moods
    /\ stack' = [ stack EXCEPT ![t] =
                    << Frame(validate_model(model_id), max_retries) >> ]
    /\ ret' = [ ret EXCEPT ![t] = label ]
    /\ result' = [ result EXCEPT ![t] = NoResult ]
    /\ tally' = [ tally EXCEPT ![t] =
                    [ NoTrail EXCEPT !.budget = max_retries,
                                     !.first = validate_model(model_id),
                                     !.waits = tally[t].waits ] ]
    /\ pc' = [ pc EXCEPT ![t] = "loop" ]

\* A caller of its own calls call_openrouter with any model id and budget.
Call(t) ==
    /\ pc[t] = "idle"
    /\ calls[t] < MaxCalls
    /\ \E model_id \in ModelInputs, max_retries \in 0 .. MAX_RETRIES :
         Invoke(t, model_id, max_retries, "idle")
    /\ calls' = [ calls EXCEPT ![t] = @ + 1 ]
    /\ traffic' = [ traffic EXCEPT ![t] = { } ]
    /\ UNCHANGED << clock, limiter, setup, wake, locals, gated, job, jobs,
                    front, outbound >>

\* for attempt in range(max_retries): ... and, past the loop,
\* return generate_fallback_response(messages, validated_model)
LoopHead(t) ==
    /\ pc[t] = "loop"
    /\ LET f == Top(stack[t])
       IN  IF f.attempt < f.max_retries
           THEN /\ pc' = [ pc EXCEPT ![t] = "wait_read" ]
                /\ UNCHANGED << stack, result, wake >>
           ELSE ReturnText(t, generate_fallback_response(f.model), "fallback")
    /\ UNCHANGED << clock, limiter, env, tally, locals, gated, outer,
                    outbound >>

\* The tally of t after a step that may have put t to a backoff sleep.
Slept(t) ==
    [ tally EXCEPT ![t].sleeps = IF pc'[t] = "backoff" THEN @ + 1 ELSE @ ]

\* The tally of t after get_api_key may have raised.
Keyed(t) ==
    [ Slept(t) EXCEPT ![t].erred = @ \/ ~api_key ]

\* The tally of t after the answer o, with the Retry-After header hint, to its
\* request.
Answered(t, o, hint) ==
    [ tally EXCEPT ![t] =
        [ @ EXCEPT
            !.fatal = \/ @
                      \/ o \in { "s401", "s402" }
                      \/ o = "s400" /\ Top(stack[t]).model = DEFAULT_MODEL,
            !.switches = IF o = "s400" /\ Top(stack[t]).model # DEFAULT_MODEL
                         THEN @ + 1 ELSE @,
            !.sleeps = IF pc'[t] = "backoff" THEN @ + 1 ELSE @,
            !.last = o,
            !.hint = hint,
            !.erred = @ \/ o \notin { "ok", "other" } ] ]

\* The tally of t after it has sent a request.
Posted(t) ==
    [ tally EXCEPT ![t] =
        [ @ EXCEPT
            !.posts = @ + 1,
            !.retried = @ \/ tally[t].fatal,
            !.back = \/ @
                     \/ /\ tally[t].switches > 0
                        /\ Top(stack[t]).model # DEFAULT_MODEL ] ]

\* headers = {... get_api_key() ...}
Headers(t) ==
    /\ pc[t] = "headers"
    /\ IF api_key
       THEN /\ pc' = [ pc EXCEPT ![t] = "post" ]
            /\ UNCHANGED << stack, result, wake >>
       ELSE Throw(t, stack[t], << "OPENROUTER_API_KEY not set. See .env file" >>)
    /\ tally' = Keyed(t)
    /\ UNCHANGED << clock, limiter, env, locals, gated, outer,
                    outbound >>

Keep2(log) == IF Len(log) > 2 THEN SubSeq(log, Len(log) - 1, Len(log)) ELSE log

\* resp = requests.post(OPENROUTER_URL, ...): the request leaves
Post(t) ==
    /\ pc[t] = "post"
    /\ outbound' = Keep2(Append(outbound,
                     [ at |-> clock, thread |-> t, model |-> Top(stack[t]).model,
                       gated |-> gated[t] ]))
    /\ gated' = [ gated EXCEPT ![t] = FALSE ]
    /\ wake' = [ wake EXCEPT ![t] = MaxLatency ]
    /\ pc' = [ pc EXCEPT ![t] = "inflight" ]
    /\ Contact(t, "llm")
    /\ tally' = Posted(t)
    /\ UNCHANGED << clock, limiter, env, stack, locals, result,
                    calls, ret, job, jobs, front >>

\* Whether the top frame has attempts left: attempt < max_retries - 1
More(f) == f.attempt < f.max_retries - 1

\* status 200 with choices: return content
OnOk(t) ==
    \E content \in Contents : ReturnText(t, content, "model")

\* 401, 402, and raise_for_status on another 4xx: an exception inside the try
OnError(t, o) ==
    Throw(t, stack[t],
          CASE o = "s401" -> << "Invalid API key. Please check your OPENROUTER_API_KEY" >>
            [] o = "s402" -> << "Insufficient credits. Please add credits to your OpenRouter account" >>
            [] OTHER -> << "HTTPError" >>)

\* status 400: the default model in place of a failing other model
OnBadRequest(t) ==
    LET f == Top(stack[t])
    IN  IF f.model # DEFAULT_MODEL
        THEN /\ stack' = [ stack EXCEPT ![t] = Append(@,
                    Frame(validate_model(DEFAULT_MODEL),
                          f.max_retries - f.attempt)) ]
             /\ pc' = [ pc EXCEPT ![t] = "loop" ]
             /\ wake' = [ wake EXCEPT ![t] = 0 ]
             /\ UNCHANGED result
        ELSE Throw(t, stack[t], << "Bad request" >>)

\* resp.headers.get('Retry-After', 60)
RetryAfter(hint) == IF hint = << >> THEN DEFAULT_RETRY_AFTER ELSE int(hint)

\* status 429: int(...) of the header raises ValueError inside the try when
\* the header is no number
OnRateLimited(t, hint) ==
    LET f == Top(stack[t])
    IN  IF RetryAfter(hint) < 0
        THEN Throw(t, stack[t], << "ValueError" >>)
        ELSE IF More(f)
        THEN \E jitter \in Jitters :
               Continue(t, RateLimitWait(RetryAfter(hint), f.attempt, jitter))
        ELSE Throw(t, stack[t], << "Rate limit exceeded" >>)

\* status >= 500
OnServerError(t) ==
    LET f == Top(stack[t])
    IN  IF More(f) THEN Continue(t, Backoff(f.attempt))
        ELSE Throw(t, stack[t], << "Server error" >>)

\* except requests.exceptions.Timeout / ConnectionError: the final raise
\* stands in the handler and leaves this frame at once
OnTimeout(t, o) ==
    LET f == Top(stack[t])
    IN  IF More(f) THEN Continue(t, Backoff(f.attempt))
        ELSE Throw(t, Pop(stack[t]),
                   IF o = "timeout" THEN << "Request timeout" >>
                   ELSE << "Connection error" >>)

\* A raise_for_status that would raise for every status other than 200.
OnOtherRaises(t) == Throw(t, stack[t], << "HTTPError" >>)

\* a status below 400 other than 200: raise_for_status() does nothing and the
\* loop goes on without a sleep
OnOther(t) ==
    /\ stack' = [ stack EXCEPT ![t] =
                    SetTop(@, [ Top(@) EXCEPT !.attempt = @ + 1 ]) ]
    /\ pc' = [ pc EXCEPT ![t] = "loop" ]
    /\ wake' = [ wake EXCEPT ![t] = 0 ]
    /\ UNCHANGED result

\* A branch that would let an answer 200 without choices pass like a 3xx.
OnMalformedPasses(t) == OnOther(t)

\* status 200 without choices:
\* raise Exception("Invalid response format from OpenRouter API") inside the try
OnMalformed(t) ==
    Throw(t, stack[t], << "Invalid response format from OpenRouter API" >>)

\* requests.post returns or raises, and the attempt's branch runs.
Respond(t) ==
    /\ pc[t] = "inflight"
    /\ \E o \in provider, hint \in Hints :
         /\ o # "s429" => hint = << >>
         /\ \/ o = "ok" /\ OnOk(t)
            \/ o = "malformed" /\ OnMalformed(t)
            \/ o \in { "s401", "s402", "s4xx" } /\ OnError(t, o)
            \/ o = "s400" /\ OnBadRequest(t)
            \/ o = "s429" /\ OnRateLimited(t, hint)
            \/ o = "s5xx" /\ OnServerError(t)
            \/ o \in { "timeout", "connection" } /\ OnTimeout(t, o)
            \/ o = "other" /\ OnOther(t)
         /\ tally' = Answered(t, o, hint)
    /\ UNCHANGED << clock, limiter, env, locals, gated, outer,
                    outbound >>

\* the backoff sleep returns; continue
BackoffDone(t) ==
    /\ pc[t] = "backoff"
    /\ wake[t] = 0
    /\ stack' = [ stack EXCEPT ![t] =
                    SetTop(@, [ Top(@) EXCEPT !.attempt = @ + 1 ]) ]
    /\ pc' = [ pc EXCEPT ![t] = "loop" ]
    /\ wake' = [ wake EXCEPT ![t] = 0 ]
    /\ UNCHANGED << clock, limiter, env, tally, locals, gated,
                    result, outer, outbound >>

(* ------------------------------ Researcher ---------------------------- *)
SERPER_RETRIES == 3
EXTRACT_RETRIES == 2
RETRY_BASE == 2
RETRY_PAUSE == 1
INLINE_MIN == 100
EXTRACT_MIN == 50
MIN_SOURCES == 2
TARGET_SOURCES == 3

\* The questions told apart by the code: "rice" and "kano" both occur, or not.
Queries == { "rice kano", "other" }

Titles == { << >>, << "A" >> }

\* The link of the i-th organic result.
Link(i) == << "https", ":", "//", "h" >> \o Decimal(i)

\* An organic result of the search endpoint at position i: with content long
\* enough to be used as it is, with content just too short, with a link that
\* is no http(s) URL.
Organic(kind, i) ==
    CASE kind = "inline" ->
           [ title |-> << "A" >>, link |-> Link(i), content |-> INLINE_MIN + 1 ]
      [] kind = "short" ->
           [ title |-> << >>, link |-> Link(i), content |-> INLINE_MIN ]
      [] kind = "nolink" ->
           [ title |-> << "A" >>, link |-> << "ftp", ":", "//", "h" >>,
             content |-> INLINE_MIN + 1 ]

OrganicKinds == { "inline", "short", "nolink" }

\* The lists of organic results a 200 answer of the search endpoint carries.
OrganicLists ==
    UNION { [ 1 .. n -> OrganicKinds ] : n \in 0 .. MaxOrganic }

\* What an extraction finds at a URL: a title and a text (its stripped length).
Pages ==
    { [ title |-> << "A" >>, text |-> 0 ],
      [ title |-> << >>, text |-> EXTRACT_MIN - 1 ],
      [ title |-> << "A" >>, text |-> EXTRACT_MIN ],
      [ title |-> << >>, text |-> EXTRACT_MIN + 1 ] }

\* A call of fetch_and_extract: what became of the hosted extraction and of the
\* direct fetch ("none" while not tried, "raised", or "answered" with the
\* stripped length of the text it gave), and how the call ended ("returned",
\* "raised", or "none" while it runs).
NoFetch ==
    [ hosted |-> "none", hosted_text |-> 0, direct |-> "none",
      direct_text |-> 0, ended |-> "none" ]

\* num_results is what serper_search was called with and alone whether a
\* caller of its own called it; requests counts the requests this search has
\* sent to the search endpoint, paid tells that one was answered 402, and
\* secondary counts the calls of openrouter_search; answer is the answer of
\* the search endpoint that the loop of serper_search is dealing with, and
\* limited counts the answers 429; trail lists the hits the loop of
\* researcher_job has taken up, and fetch tells how the call of
\* fetch_and_extract for the hit at hand has gone.
NoJob ==
    [ status |-> "none", query |-> "", top_k |-> 0, search |-> "none",
      hits |-> << >>, next |-> 1, attempt |-> 0, selected |-> << >>,
      failed_urls |-> << >>, num_results |-> 0, alone |-> FALSE,
      requests |-> 0, paid |-> FALSE, secondary |-> 0, answer |-> "none",
      limited |-> 0, trail |-> << >>, fetch |-> NoFetch ]

Take(s, n) == SubSeq(s, 1, Min(n, Len(s)))

\* A hit of the search: title, url and the stripped length of its content.
Hit(title, url, content) ==
    [ title |-> title, url |-> url, content |-> content ]

\* A document of the Researcher; text is the stripped length of its text,
\* error is "" when the document carries no error tag, and via tells where the
\* document was made: "inline", "hosted", "direct" or "generated".
Doc(url, title, text, synthetic, error, via) ==
    [ url |-> url, title |-> title, text |-> text, synthetic |-> synthetic,
      error |-> error, via |-> via ]

\* The stripped lengths of the literal texts of get_fallback_sources and
\* create_synthetic_content.
FALLBACK_TEXT_1 == 1666
FALLBACK_TEXT_2 == 1574
CANNED_TEXT == 2662
FAILURE_TEXT == 285

\* for result in data.get('organic', [])[:num_results]: ... is_valid_url
RECURSIVE ValidHits(_, _)
ValidHits(organic, i) ==
    IF i > Len(organic) THEN << >>
    ELSE LET r == Organic(organic[i], i)
         IN  (IF is_valid_url(r.link)
              THEN << Hit(r.title, r.link, r.content) >> ELSE << >>)
             \o ValidHits(organic, i + 1)

get_fallback_sources ==
    << Hit(<< "RICE vs Kano Model" >>,
           << "https", ":", "//", "example.com", "/", "rice-kano-comparison" >>,
           FALLBACK_TEXT_1),
       Hit(<< "Product Management Prioritization" >>,
           << "https", ":", "//", "example.com", "/",
              "prioritization-frameworks" >>,
           FALLBACK_TEXT_2) >>

\* The researcher's own sleeps: 2 ** attempt (+ random.uniform(0, 1)), and 1.
RetryWait(attempt, jitter) == Seconds(Pow(RETRY_BASE, attempt)) + jitter
RetryPause == Seconds(RETRY_PAUSE)

SetJob(t, j) == job' = [ job EXCEPT ![t] = j ]

\* Where researcher_job goes back to: the /ask handler or a caller of its own.
Caller(t) == IF req[t].status = "running" THEN "as_sources" ELSE "idle"

\* A caller of its own calls researcher_job(query, top_k_sites).
Research(t) ==
    /\ pc[t] = "idle"
    /\ jobs[t] < MaxJobs
    /\ \E query \in Queries, top_k_sites \in 1 .. MaxTopK :
         SetJob(t, [ NoJob EXCEPT !.status = "running", !.query = query,
                                  !.top_k = top_k_sites,
                                  !.num_results = top_k_sites * 2 ])
    /\ jobs' = [ jobs EXCEPT ![t] = @ + 1 ]
    /\ pc' = [ pc EXCEPT ![t] = "rj_search" ]
    /\ traffic' = [ traffic EXCEPT ![t] = { } ]
    /\ UNCHANGED << clock, limiter, env, tally, stack, wake, locals, gated, result,
                    calls, front, ret, outbound >>

\* A caller of its own calls serper_search(query, num_results).
Search(t) ==
    /\ pc[t] = "idle"
    /\ jobs[t] < MaxJobs
    /\ \E query \in Queries, num_results \in 0 .. MaxResults :
         SetJob(t, [ NoJob EXCEPT !.status = "running", !.query = query,
                                  !.num_results = num_results,
                                  !.alone = TRUE ])
    /\ jobs' = [ jobs EXCEPT ![t] = @ + 1 ]
    /\ pc' = [ pc EXCEPT ![t] = "rj_search" ]
    /\ traffic' = [ traffic EXCEPT ![t] = { } ]
    /\ UNCHANGED << clock, limiter, env, tally, stack, wake, locals, gated, result,
                    calls, front, ret, outbound >>

\* A slip: the exception of the search leaves researcher_job.
SearchRaisesUncaught(t) ==
    /\ pc[t] = "rj_search"
    /\ search_throws
    /\ SetJob(t, [ job[t] EXCEPT !.status = "raised", !.search = "raised" ])
    /\ pc' = [ pc EXCEPT ![t] = Caller(t) ]
    /\ UNCHANGED << clock, limiter, env, tally, stack, wake, locals, gated, result,
                    calls, front, ret, jobs, traffic, outbound >>

\* try: hits = serper_search(...) except Exception: hits = [], with the search
\* replaced by a double that raises
SearchRaises(t) ==
    /\ pc[t] = "rj_search"
    /\ search_throws
    /\ SetJob(t, [ job[t] EXCEPT !.hits = << >>, !.search = "raised" ])
    /\ pc' = [ pc EXCEPT ![t] = "rj_loop" ]
    /\ UNCHANGED << clock, limiter, env, tally, stack, wake, locals, gated, result,
                    calls, front, ret, jobs, traffic, outbound >>

\* serper_search returns to researcher_job, where its locals are gone (of the
\* answers of the search endpoint only a 200 is kept on record), or to a
\* caller of its own.
Left(j) ==
    IF j.alone THEN [ j EXCEPT !.status = "searched", !.attempt = 0 ]
    ELSE [ j EXCEPT !.attempt = 0, !.requests = 0, !.paid = FALSE,
                    !.secondary = 0, !.limited = 0,
                    !.answer = IF @ = "s200" THEN @ ELSE "none" ]

AfterSearch(j) == IF j.alone THEN "idle" ELSE "rj_loop"

\* serper_search leaves its loop for openrouter_search
SerperGiveUp(t, j) ==
    /\ pc' = [ pc EXCEPT ![t] = "os_call" ]
    /\ SetJob(t, [ j EXCEPT !.attempt = 0 ])
    /\ UNCHANGED wake

\* serper_search sleeps and goes on with the next attempt
SerperRetry(t, j, ticks) ==
    /\ pc' = [ pc EXCEPT ![t] = "ss_sleep" ]
    /\ wake' = [ wake EXCEPT ![t] = ticks ]
    /\ SetJob(t, j)

\* A serper_search that would turn to openrouter_search when the answer 200
\* holds no valid hit.
SerperOkUnlessEmpty(t, j) ==
    \E organic \in organic_lists :
      IF ValidHits(Take(organic, j.num_results), 1) = << >>
      THEN SerperGiveUp(t, j)
      ELSE /\ SetJob(t, Left([ j EXCEPT
                            !.hits = ValidHits(Take(organic, j.num_results), 1),
                            !.search = "primary" ]))
           /\ pc' = [ pc EXCEPT ![t] = AfterSearch(j) ]
           /\ UNCHANGED wake

\* status 200: the valid hits among the first num_results organic results
SerperOk(t, j) ==
    \E organic \in organic_lists :
      /\ SetJob(t, Left([ j EXCEPT
                            !.hits = ValidHits(Take(organic, j.num_results), 1),
                            !.search = "primary" ]))
      /\ pc' = [ pc EXCEPT ![t] = AfterSearch(j) ]
      /\ UNCHANGED wake

\* A serper_search that would leave its loop on a 429.
SerperRateLimitedBreaks(t, j) == SerperGiveUp(t, j)

\* status 429
SerperRateLimited(t, j) ==
    \E jitter \in Jitters : SerperRetry(t, j, RetryWait(j.attempt, jitter))

\* another status than 200, 429 and 402
SerperBadStatus(t, j) ==
    IF j.attempt = SERPER_RETRIES - 1 THEN SerperGiveUp(t, j)
    ELSE SerperRetry(t, j, RetryPause)

\* except requests.exceptions.RequestException
SerperRequestError(t, j) ==
    IF j.attempt < SERPER_RETRIES - 1
    THEN SerperRetry(t, j, RetryWait(j.attempt, 0))
    ELSE SerperGiveUp(t, j)

\* A get_serper_api_key that would return a key whatever the environment.
get_serper_api_key_any == TRUE

\* get_serper_api_key returns the key; it raises RuntimeError when FALSE.
get_serper_api_key == serper_key

\* The job of a search whose request was answered o.
Sent(j, o) ==
    [ j EXCEPT !.requests = @ + 1, !.paid = @ \/ o = "s402", !.answer = o,
               !.limited = IF o = "s429" THEN @ + 1 ELSE @ ]

\* One pass of the loop of serper_search: the key, the request, its answer.
SerperAttempt(t) ==
    /\ pc[t] = "rj_search"
    /\ ~search_throws
    /\ IF job[t].attempt >= SERPER_RETRIES \/ ~get_serper_api_key
       THEN SerperGiveUp(t, job[t]) /\ UNCHANGED traffic
       ELSE /\ Contact(t, "search")
            /\ \E o \in search_provider :
                 \/ o = "s200" /\ SerperOk(t, Sent(job[t], o))
                 \/ o = "s429" /\ SerperRateLimited(t, Sent(job[t], o))
                 \/ o \in { "s402", "error" } /\ SerperGiveUp(t, Sent(job[t], o))
                 \/ o = "status" /\ SerperBadStatus(t, Sent(job[t], o))
                 \/ o = "request_error" /\ SerperRequestError(t, Sent(job[t], o))
    /\ UNCHANGED << clock, limiter, env, tally, stack, locals, gated, result,
                    calls, front, ret, jobs, outbound >>

\* time.sleep returns; continue
SerperWake(t) ==
    /\ pc[t] = "ss_sleep"
    /\ wake[t] = 0
    /\ SetJob(t, [ job[t] EXCEPT !.attempt = @ + 1, !.answer = "none" ])
    /\ wake' = [ wake EXCEPT ![t] = 0 ]
    /\ pc' = [ pc EXCEPT ![t] = "rj_search" ]
    /\ UNCHANGED << clock, limiter, env, tally, stack, locals, gated, result,
                    calls, front, ret, jobs, traffic, outbound >>

\* "http" in line
HasHttp(line) == \E i \in 1 .. Len(line) : line[i] \in { "http", "https" }

\* re.search(r'https?://[^\s]+', line): the match, or << >> without one
UrlMatch(line) ==
    LET starts == { i \in 1 .. Len(line) - 3 :
                      /\ line[i] \in { "http", "https" }
                      /\ line[i + 1] = ":" /\ line[i + 2] = "//"
                      /\ line[i + 3] \notin Spaces }
    IN  IF starts = { } THEN << >>
        ELSE LET i == CHOOSE k \in starts : \A m \in starts : k <= m
             IN  SubSeq(line, i, Find(line, Spaces, i + 3) - 1)

\* The body of "for line in output.splitlines()": no hit or one hit
ParseLine(raw) ==
    LET line == Strip(raw)
    IN  IF line = << >> \/ ~HasHttp(line) THEN << >>
        ELSE IF \E i \in 1 .. Len(line) : line[i] = EN_DASH
        THEN LET k == Find(line, { EN_DASH }, 1)
                 title == LStrip(Strip(SubSeq(line, 1, k - 1)),
                                 DigitSet \cup { ".", " " })
                 url == Strip(SubSeq(line, k + 1, Len(line)))
             IN  IF url # << >> /\ is_valid_url(url)
                 THEN << Hit(title, url, 0) >> ELSE << >>
        ELSE LET url == UrlMatch(line)
                 title == LStrip(Strip(Replace(line, url, << >>)),
                                 DigitSet \cup { ".", "-", " " })
             IN  IF url # << >> /\ is_valid_url(url)
                 THEN << Hit(IF title = << >> THEN << "Article" >> ELSE title,
                             url, 0) >>
                 ELSE << >>

\* for line in output.splitlines(), from the i-th line on
RECURSIVE ParseFrom(_, _)
ParseFrom(lines, i) ==
    IF i > Len(lines) THEN << >>
    ELSE ParseLine(lines[i]) \o ParseFrom(lines, i + 1)

ParseLines(lines) == ParseFrom(lines, 1)

\* openrouter_search: output = call_openrouter([...])
OpenrouterSearch(t) ==
    /\ pc[t] = "os_call"
    /\ Invoke(t, None, MAX_RETRIES, "os_ret")
    /\ SetJob(t, [ job[t] EXCEPT !.secondary = @ + 1 ])
    /\ UNCHANGED << clock, limiter, setup, wake, locals, gated, calls, front,
                    jobs, traffic, outbound >>

\* The texts call_openrouter can return, and the hits parsed from each.
Texts ==
    Contents \cup { generate_fallback_response(m) : m \in AVAILABLE_MODELS }

ParsedHits == [ output \in Texts |-> ParseLines(SplitLines(output)) ]

\* An openrouter_search that would hand out the catalog whatever the call did.
openrouter_search_catalog(j, res) ==
    [ j EXCEPT !.hits = get_fallback_sources, !.search = "tertiary" ]

\* openrouter_search returns: the hits parsed from the output, cut to
\* num_results; or get_fallback_sources when the call raised
openrouter_search(j, res) ==
    IF res.status = "returned"
    THEN [ j EXCEPT !.hits = Take(ParsedHits[res.text], j.num_results),
                    !.search = "secondary" ]
    ELSE [ j EXCEPT !.hits = get_fallback_sources, !.search = "tertiary" ]

OpenrouterSearchDone(t) ==
    /\ pc[t] = "os_ret"
    /\ SetJob(t, Left(openrouter_search(job[t], result[t])))
    /\ pc' = [ pc EXCEPT ![t] = AfterSearch(job[t]) ]
    /\ UNCHANGED << clock, limiter, env, tally, stack, wake, locals, gated, result,
                    calls, front, ret, jobs, traffic, outbound >>

\* The hit the loop of researcher_job stands at.
Current(j) == j.hits[j.next]

\* The job once the hosted extraction of the call at hand has raised, or has
\* answered with a text of the given stripped length.
HostedRaised(j) == [ j EXCEPT !.fetch.hosted = "raised" ]
HostedAnswered(j, text) ==
    [ j EXCEPT !.fetch.hosted = "answered", !.fetch.hosted_text = text ]

\* The same for the direct fetch.
DirectRaised(j) == [ j EXCEPT !.fetch.direct = "raised" ]
DirectAnswered(j, text) ==
    [ j EXCEPT !.fetch.direct = "answered", !.fetch.direct_text = text ]

\* return extracted_data / raise Exception(f"Content extraction error: ...")
FetchEnded(j, how) == [ j EXCEPT !.fetch.ended = how ]

\* A loop that would put each new document in front of the others.
SelectedInFront(j, doc) ==
    [ j EXCEPT !.selected = << doc >> \o @, !.next = @ + 1, !.attempt = 0 ]

\* selected.append(doc), and the loop goes to the next hit
Selected(j, doc) ==
    [ j EXCEPT !.selected = Append(@, doc), !.next = @ + 1, !.attempt = 0 ]

Select(t, j, doc) ==
    /\ SetJob(t, Selected(FetchEnded(j, "returned"), doc))
    /\ pc' = [ pc EXCEPT ![t] = "rj_loop" ]

\* The job once its loop has taken up the hit it stands at, to wrap it
\* ("inline") or to call fetch_and_extract on it ("extract"), with had
\* documents selected so far.
Tried(j, how) ==
    [ j EXCEPT !.trail = Append(@, [ hit |-> j.next, how |-> how,
                                     had |-> Len(j.selected) ]) ]

\* except Exception: failed_urls.append(h["url"]); continue
Rejected(j) ==
    [ j EXCEPT !.failed_urls = Append(@, Current(j).url),
               !.next = @ + 1, !.attempt = 0 ]

Reject(t, j) ==
    /\ SetJob(t, Rejected(FetchEnded(j, "raised")))
    /\ pc' = [ pc EXCEPT ![t] = "rj_loop" ]

\* A loop that would never break.
EnoughNever(j) == FALSE

\* if len(selected) >= top_k_sites: break
Enough(j) == Len(j.selected) >= j.top_k

\* for h in hits: the break, the inline content, or on to fetch_and_extract
Candidate(t) ==
    /\ pc[t] = "rj_loop"
    /\ LET j == job[t]
       IN  IF j.next > Len(j.hits) \/ Enough(j)
           THEN /\ pc' = [ pc EXCEPT ![t] = "rj_topup" ]
                /\ SetJob(t, [ j EXCEPT !.fetch = NoFetch ])
           ELSE IF Current(j).content > INLINE_MIN
           THEN /\ SetJob(t, Selected(Tried([ j EXCEPT !.fetch = NoFetch ],
                                            "inline"),
                                      Doc(Current(j).url, Current(j).title,
                                          Current(j).content, FALSE, "",
                                          "inline")))
                /\ pc' = [ pc EXCEPT ![t] = "rj_loop" ]
           ELSE /\ SetJob(t, Tried([ j EXCEPT !.fetch = NoFetch ], "extract"))
                /\ pc' = [ pc EXCEPT ![t] = "fx_hosted" ]
    /\ UNCHANGED << clock, limiter, env, tally, stack, wake, locals, gated, result,
                    calls, front, ret, jobs, traffic, outbound >>

\* serper_extract_content sleeps and goes on with the next attempt
HostedRetry(t, ticks) ==
    /\ pc' = [ pc EXCEPT ![t] = "fx_sleep" ]
    /\ wake' = [ wake EXCEPT ![t] = ticks ]
    /\ UNCHANGED job

\* the hosted extraction is given up for the direct one (except Exception of
\* fetch_and_extract)
HostedGiveUp(t, j) ==
    /\ pc' = [ pc EXCEPT ![t] = "fx_direct" ]
    /\ SetJob(t, j)
    /\ UNCHANGED wake

\* except Exception of serper_extract_content: sleep 1 and go on, or raise
HostedError(t) ==
    IF job[t].attempt < EXTRACT_RETRIES - 1 THEN HostedRetry(t, RetryPause)
    ELSE HostedGiveUp(t, HostedRaised(job[t]))

\* A check that would take a text of just 50 characters.
SufficientAtMinimum(page) == page.text >= EXTRACT_MIN

\* extracted_data.get('text') and len(extracted_data['text'].strip()) > 50
Sufficient(page) == page.text > EXTRACT_MIN

\* status 200: the extraction is taken when its text is longer than 50
HostedOk(t) ==
    \E page \in Pages :
      LET j == HostedAnswered(job[t], page.text)
      IN  IF Sufficient(page)
          THEN /\ Select(t, j, Doc(Current(j).url, page.title, page.text,
                                   FALSE, "", "hosted"))
               /\ UNCHANGED wake
          ELSE HostedGiveUp(t, j)

\* One pass of the loop of serper_extract_content, with what fetch_and_extract
\* does with its outcome.
Hosted(t) ==
    /\ pc[t] = "fx_hosted"
    /\ IF job[t].attempt >= EXTRACT_RETRIES
       THEN HostedGiveUp(t, HostedRaised(job[t])) /\ UNCHANGED traffic
       ELSE IF ~serper_key
       THEN HostedError(t) /\ UNCHANGED traffic
       ELSE /\ Contact(t, "extract")
            /\ \E o \in extract_provider :
                 \/ o = "s200" /\ HostedOk(t)
                 \/ o = "s429" /\ \E jitter \in Jitters :
                        HostedRetry(t, RetryWait(job[t].attempt, jitter))
                 \/ o \in { "status", "error" } /\ HostedError(t)
    /\ UNCHANGED << clock, limiter, env, tally, stack, locals, gated, result,
                    calls, front, ret, jobs, outbound >>

\* time.sleep returns; continue
HostedWake(t) ==
    /\ pc[t] = "fx_sleep"
    /\ wake[t] = 0
    /\ SetJob(t, [ job[t] EXCEPT !.attempt = @ + 1 ])
    /\ wake' = [ wake EXCEPT ![t] = 0 ]
    /\ pc' = [ pc EXCEPT ![t] = "fx_hosted" ]
    /\ UNCHANGED << clock, limiter, env, tally, stack, locals, gated, result,
                    calls, front, ret, jobs, traffic, outbound >>

\* A check that would let every article pass.
InsufficientNever(page) == FALSE

\* not extracted_data.get('text') or len(extracted_data['text'].strip()) < 50
Insufficient(page) == page.text = 0 \/ page.text < EXTRACT_MIN

\* The direct fetch with newspaper: the article is taken unless its text is
\* empty or shorter than 50; every failure leaves fetch_and_extract as an
\* exception, which researcher_job catches.
Direct(t) ==
    /\ pc[t] = "fx_direct"
    /\ \E o \in article_fetch :
         \/ /\ o = "import_error"
            /\ Reject(t, DirectRaised(job[t]))
            /\ UNCHANGED traffic
         \/ /\ o = "error"
            /\ Reject(t, DirectRaised(job[t]))
            /\ Contact(t, "fetch")
         \/ /\ o = "parsed"
            /\ Contact(t, "fetch")
            /\ \E page \in Pages :
                 LET j == DirectAnswered(job[t], page.text)
                 IN  IF Insufficient(page) THEN Reject(t, j)
                     ELSE Select(t, j, Doc(Current(j).url, page.title,
                                           page.text, FALSE, "", "direct"))
    /\ UNCHANGED << clock, limiter, env, tally, stack, wake, locals, gated, result,
                    calls, front, ret, jobs, outbound >>

\* A slip: the floor is the target, whatever the caller asked for.
FloorTarget(top_k_sites) == Max(MIN_SOURCES, TARGET_SOURCES)

\* while len(selected) < max(2, min(top_k_sites, 3))
Floor(top_k_sites) == Max(MIN_SOURCES, Min(top_k_sites, TARGET_SOURCES))

\* A loop that would add one document more.
ShortOrEven(j) == Len(j.selected) <= Floor(j.top_k)

Short(j) == Len(j.selected) < Floor(j.top_k)

\* A numbering that would give every synthetic document the number 1.
SyntheticUrlOne(j) == << "generated", ":", "//", "content", "/" >> \o Decimal(1)

\* f"generated://content/{len(selected) + 1}"
SyntheticUrl(j) ==
    << "generated", ":", "//", "content", "/" >> \o Decimal(Len(j.selected) + 1)

\* create_synthetic_content for a question with "rice" and "kano": the literal
\* text, no LLM call
SyntheticCanned(t) ==
    /\ pc[t] = "rj_topup"
    /\ Short(job[t])
    /\ job[t].query = "rice kano"
    /\ SetJob(t, [ job[t] EXCEPT !.selected = Append(@,
           Doc(SyntheticUrl(job[t]), << "Business Analysis", ":", " ", job[t].query >>,
               CANNED_TEXT, TRUE, "", "generated")) ])
    /\ UNCHANGED << clock, limiter, env, tally, pc, stack, wake, locals, gated, result,
                    calls, front, ret, jobs, traffic, outbound >>

\* create_synthetic_content for another question: content = call_openrouter(...)
\* create_synthetic_content, were it to pass the model of the request on to
\* call_openrouter.
SyntheticCallSelected(t) ==
    /\ pc[t] = "rj_topup"
    /\ Short(job[t])
    /\ job[t].query # "rice kano"
    /\ Invoke(t, req[t].selected_model, MAX_RETRIES, "sc_ret")
    /\ UNCHANGED << clock, limiter, setup, wake, locals, gated, calls, front,
                    research, outbound >>

SyntheticCall(t) ==
    /\ pc[t] = "rj_topup"
    /\ Short(job[t])
    /\ job[t].query # "rice kano"
    /\ Invoke(t, None, MAX_RETRIES, "sc_ret")
    /\ UNCHANGED << clock, limiter, setup, wake, locals, gated, calls, front,
                    research, outbound >>

\* A version that would leave the error tag out.
create_synthetic_content_untagged(j, res) ==
    IF res.status = "returned"
    THEN Doc(SyntheticUrl(j), << "Business Analysis", ":", " ", j.query >>,
             Len(res.text), TRUE, "", "generated")
    ELSE Doc(SyntheticUrl(j), << "Information about", " ", j.query >>,
             FAILURE_TEXT, TRUE, "", "generated")

\* create_synthetic_content returns: the generated text, or, the call having
\* raised, the literal text with the error tag
create_synthetic_content(j, res) ==
    IF res.status = "returned"
    THEN Doc(SyntheticUrl(j), << "Business Analysis", ":", " ", j.query >>,
             Len(res.text), TRUE, "", "generated")
    ELSE Doc(SyntheticUrl(j), << "Information about", " ", j.query >>,
             FAILURE_TEXT, TRUE, "CONTENT_GENERATION_FAILED", "generated")

\* A slip: the exception of the LLM call leaves create_synthetic_content and
\* researcher_job.
SyntheticDoneUncaught(t) ==
    /\ pc[t] = "sc_ret"
    /\ IF result[t].status = "returned"
       THEN /\ SetJob(t, [ job[t] EXCEPT !.selected =
                     Append(@, create_synthetic_content(job[t], result[t])) ])
            /\ pc' = [ pc EXCEPT ![t] = "rj_topup" ]
       ELSE /\ SetJob(t, [ job[t] EXCEPT !.status = "raised" ])
            /\ pc' = [ pc EXCEPT ![t] = "idle" ]
    /\ UNCHANGED << clock, limiter, env, tally, stack, wake, locals, gated, result,
                    calls, front, ret, jobs, traffic, outbound >>

SyntheticDone(t) ==
    /\ pc[t] = "sc_ret"
    /\ SetJob(t, [ job[t] EXCEPT !.selected =
                     Append(@, create_synthetic_content(job[t], result[t])) ])
    /\ pc' = [ pc EXCEPT ![t] = "rj_topup" ]
    /\ UNCHANGED << clock, limiter, env, tally, stack, wake, locals, gated, result,
                    calls, front, ret, jobs, traffic, outbound >>

\* return selected
ResearchReturn(t) ==
    /\ pc[t] = "rj_topup"
    /\ ~Short(job[t])
    /\ SetJob(t, [ job[t] EXCEPT !.status = "returned" ])
    /\ pc' = [ pc EXCEPT ![t] = Caller(t) ]
    /\ UNCHANGED << clock, limiter, env, tally, stack, wake, locals, gated, result,
                    calls, front, ret, jobs, traffic, outbound >>

(* -------------------------------- utils ------------------------------- *)
\* s.get(key, default) of a dict with string values
Get(s, key, default) == IF key \in DOMAIN s THEN s[key] ELSE default

\* A slip: no url in the place of a missing title.
TitleOrNothing(s) == Get(s, "title", << >>)

\* s.get("title") or s.get("url")
TitleOrUrl(s) ==
    IF Get(s, "title", << >>) # << >> THEN s.title
    ELSE Get(s, "url", << "None" >>)

\* f"[{i}] {title} - {s.get('url')}", the dash being an em dash
Citation(i, s) ==
    << "[" >> \o Decimal(i) \o << "]", " " >> \o TitleOrUrl(s)
        \o << " ", EM_DASH, " " >> \o Get(s, "url", << "None" >>)

build_citation_list(sources) ==
    [ i \in 1 .. Len(sources) |-> Citation(i, sources[i]) ]

\* The last index i <= from with s[i] in set, or 0.
RECURSIVE FindLast(_, _, _)
FindLast(s, set, from) ==
    IF from < 1 THEN 0
    ELSE IF s[from] \in set THEN from
    ELSE FindLast(s, set, from - 1)

\* parts = c.split(EM_DASH); url = parts[-1].strip() if len(parts) > 1 else "#"
CitationUrl(c) ==
    LET k == FindLast(c, { EM_DASH }, Len(c))
    IN  IF k = 0 THEN << "#" >> ELSE Strip(SubSeq(c, k + 1, Len(c)))

\* f"[{i}]"
Marker(i) == << "[" >> \o Decimal(i) \o << "]" >>

\* f'<sup><a href="{url}" target="_blank" rel="noopener">[{i}]</a></sup>'
Superscript(url, i) ==
    << "<sup><a href=\"" >> \o url
        \o << "\" target=\"_blank\" rel=\"noopener\">" >> \o Marker(i)
        \o << "</a></sup>" >>

\* format_superscripts after the first n citations have been dealt with
RECURSIVE Formatted(_, _, _)
Formatted(text, citations, n) ==
    IF n = 0 THEN text
    ELSE Replace(Formatted(text, citations, n - 1), Marker(n),
                 Superscript(CitationUrl(citations[n]), n))

\* A format_superscripts that would leave the markers as they are.
format_superscripts_plain(text, citations) == text

format_superscripts(text, citations) ==
    Formatted(text, citations, Len(citations))

(* ----------------------------- Synthesizer ---------------------------- *)
SUGGESTED_ALTERNATIVES ==
    << "x-ai/grok-4-fast:free", "deepseek/deepseek-chat-v3.1:free",
       "google/gemini-2.0-flash-exp:free" >>

FALLBACK_SOURCES == 3

\* f"* {src.get('title', 'Source')} - {src.get('url', 'N/A')}" for the first
\* three sources, one a line
RECURSIVE Bullets(_, _)
Bullets(sources, i) ==
    IF i > Min(Len(sources), FALLBACK_SOURCES) THEN << >>
    ELSE << "*", " " >> \o Get(sources[i], "title", << "Source" >>)
         \o << " ", "-", " " >> \o Get(sources[i], "url", << "N/A" >>)
         \o (IF i < Min(Len(sources), FALLBACK_SOURCES) THEN << "\n" >> ELSE << >>)
         \o Bullets(sources, i + 1)

\* A slip: the fallback answer names no document.
fallback_answer_bare(sources, model_id) ==
    << "unable", get_model_config(model_id), "\n" >>

\* The fallback_answer of synthesize_from_sources.
fallback_answer(sources, model_id) ==
    << "unable", get_model_config(model_id), "\n" >> \o Bullets(sources, 1)
        \o << "\n" >>
        \o (IF Len(sources) > FALLBACK_SOURCES THEN << "* ..." >> ELSE << >>)

\* The dict synthesize_from_sources returns, res being the outcome of its
\* call_openrouter.
synthesize_from_sources(sources, model_id, res) ==
    IF res.status = "returned"
    THEN [ answer |-> format_superscripts(res.text, build_citation_list(sources)),
           citations |-> build_citation_list(sources),
           source_count |-> Len(sources),
           model_used |-> get_model_config(validate_model(model_id)),
           model_id |-> validate_model(model_id) ]
    ELSE [ answer |-> fallback_answer(sources, validate_model(model_id)),
           citations |-> build_citation_list(sources),
           source_count |-> Len(sources),
           error |-> "API_RATE_LIMITED",
           model_used |-> get_model_config(validate_model(model_id)),
           model_id |-> validate_model(model_id),
           suggested_alternatives |-> SUGGESTED_ALTERNATIVES ]

(* ------------------------------ app/main.py --------------------------- *)
QUESTION_MAX == 1000
QUESTION_MIN == 3
\* researcher_job(question, top_k_sites=5)
ASK_TOP_K == 5

Question(lead, body, trail, topic) ==
    [ lead |-> lead, body |-> body, trail |-> trail, topic |-> topic ]

\* len(question) and question.strip()
QuestionLen(question) == question.lead + question.body + question.trail
QuestionStrip(question) == [ question EXCEPT !.lead = 0, !.trail = 0 ]

\* The questions a client sends: of stripped length 0, 1, 2, 3, 1000 and
\* 1001, bare or within blanks.
Questions ==
    { Question(pad, body, pad, "other") :
        pad \in 0 .. 1,
        body \in { 0, QUESTION_MIN - 2, QUESTION_MIN - 1, QUESTION_MIN,
                   QUESTION_MAX, QUESTION_MAX + 1 } }
    \cup { Question(0, QUESTION_MAX - 1, 2, "rice kano") }

\* A slip: the lengths are those of the question as it came.
validate_question_unstripped(question) ==
    IF QuestionLen(question) = 0 \/ QuestionStrip(question).body = 0
    THEN [ raised |-> TRUE, question |-> question ]
    ELSE IF QuestionLen(question) > QUESTION_MAX
    THEN [ raised |-> TRUE, question |-> question ]
    ELSE IF QuestionLen(question) < QUESTION_MIN
    THEN [ raised |-> TRUE, question |-> question ]
    ELSE [ raised |-> FALSE, question |-> QuestionStrip(question) ]

\* raised: a ValueError leaves validate_question; else question is returned.
validate_question(question) ==
    IF QuestionLen(question) = 0 \/ QuestionLen(QuestionStrip(question)) = 0
    THEN [ raised |-> TRUE, question |-> question ]
    ELSE IF QuestionLen(QuestionStrip(question)) > QUESTION_MAX
    THEN [ raised |-> TRUE, question |-> question ]
    ELSE IF QuestionLen(QuestionStrip(question)) < QUESTION_MIN
    THEN [ raised |-> TRUE, question |-> question ]
    ELSE [ raised |-> FALSE, question |-> QuestionStrip(question) ]

\* JSONResponse(format_error_response(error_type, ...), status_code); the
\* texts of error and details are left out.
ErrorResponse(error_type, status_code) ==
    [ ok |-> FALSE, error_type |-> error_type, status_code |-> status_code ]

HTTP_OK == 200
HTTP_BAD_REQUEST == 400
HTTP_SERVER_ERROR == 500

\* A handler that would answer a degraded synthesis as a failure of the
\* server.
DegradedResponseAsFailure(r, n) ==
    [ ok |-> FALSE, error_type |-> "SYSTEM_ERROR",
      status_code |-> HTTP_SERVER_ERROR ]

\* The two JSON bodies of ask's synthesis phase; of warning and of
\* processing_time only the presence is kept.
DegradedResponse(r, n) ==
    [ ok |-> TRUE, answer |-> r.answer, citations |-> r.citations,
      warning |-> TRUE, source_count |-> n, processing_time |-> TRUE,
      model_used |-> r.model_used,
      suggested_alternatives |-> r.suggested_alternatives,
      status_code |-> HTTP_OK ]

SuccessResponse(r, n) ==
    [ ok |-> TRUE, answer |-> r.answer, citations |-> r.citations,
      source_count |-> n, processing_time |-> TRUE,
      model_used |-> r.model_used, model_id |-> r.model_id,
      status_code |-> HTTP_OK ]

\* A slip: an id outside the catalog is refused as the question is.
RaisesValueErrorOnModel(question, model) ==
    \/ validate_question(question).raised
    \/ model \notin AVAILABLE_MODELS \cup { None, "" }

\* Whether a ValueError leaves ask's validation of its input: only
\* validate_question raises one, validate_model returns an id whatever it gets.
RaisesValueError(question, model) == validate_question(question).raised

SetReq(t, r) == req' = [ req EXCEPT ![t] = r ]

\* POST /ask with a question and a model: the validation, then either the
\* INVALID_INPUT answer or the call of researcher_job.
Ask(t) ==
    /\ pc[t] = "idle"
    /\ asks[t] < MaxAsks
    /\ asks' = [ asks EXCEPT ![t] = @ + 1 ]
    /\ traffic' = [ traffic EXCEPT ![t] = { } ]
    /\ \E question \in Questions, model \in ModelInputs :
         IF RaisesValueError(question, model)
         THEN /\ SetReq(t, [ NoRequest EXCEPT
                               !.status = "done", !.question = question,
                               !.model = model,
                               !.response = ErrorResponse("INVALID_INPUT",
                                                          HTTP_BAD_REQUEST) ])
              /\ UNCHANGED << pc, job >>
         ELSE /\ SetReq(t, [ NoRequest EXCEPT
                               !.status = "running", !.question = question,
                               !.model = model,
                               !.selected_model = validate_model(model) ])
              /\ SetJob(t, [ NoJob EXCEPT
                               !.status = "running",
                               !.query = validate_question(question).question.topic,
                               !.top_k = ASK_TOP_K,
                               !.num_results = ASK_TOP_K * 2 ])
              /\ pc' = [ pc EXCEPT ![t] = "rj_search" ]
    /\ UNCHANGED << clock, limiter, env, tally, stack, wake, locals, gated, result,
                    calls, ret, jobs, documents, cited, markup, synthesis,
                    outbound >>

\* researcher_job is back: RESEARCH_FAILED if it raised, NO_SOURCES_FOUND if
\* it found nothing, else synthesize_from_sources starts its call_openrouter.
AskSources(t) ==
    /\ pc[t] = "as_sources"
    /\ IF job[t].status = "raised"
       THEN /\ SetReq(t, [ req[t] EXCEPT
                             !.status = "done",
                             !.response = ErrorResponse("RESEARCH_FAILED",
                                                        HTTP_SERVER_ERROR) ])
            /\ pc' = [ pc EXCEPT ![t] = "idle" ]
            /\ UNCHANGED << provider, stack, ret, result, tally >>
       ELSE IF job[t].selected = << >>
       THEN /\ SetReq(t, [ req[t] EXCEPT
                             !.status = "done",
                             !.response = ErrorResponse("NO_SOURCES_FOUND",
                                                        HTTP_OK) ])
            /\ pc' = [ pc EXCEPT ![t] = "idle" ]
            /\ UNCHANGED << provider, stack, ret, result, tally >>
       ELSE /\ Invoke(t, req[t].selected_model, MAX_RETRIES, "as_synth")
            /\ UNCHANGED req
    /\ UNCHANGED << clock, limiter, setup, wake, locals, gated, calls,
                    research, asks, documents, cited, markup, synthesis,
                    outbound >>

\* A handler through which the exception of the LLM call of the synthesis
\* would pass, to be answered with SYSTEM_ERROR.
AskSynthUncaught(t) ==
    /\ pc[t] = "as_synth"
    /\ LET r == synthesize_from_sources(job[t].selected,
                                        req[t].selected_model, result[t])
           n == Len(job[t].selected)
       IN  SetReq(t, [ req[t] EXCEPT
                         !.status = "done",
                         !.result = r,
                         !.response = IF result[t].status = "raised"
                                      THEN ErrorResponse("SYSTEM_ERROR",
                                                         HTTP_SERVER_ERROR)
                                      ELSE SuccessResponse(r, n) ])
    /\ pc' = [ pc EXCEPT ![t] = "idle" ]
    /\ UNCHANGED << clock, limiter, env, tally, stack, wake, locals, gated, result,
                    calls, ret, research, asks, documents, cited, markup,
                    synthesis, outbound >>

\* call_openrouter is over: synthesize_from_sources returns its dict and ask
\* answers with the degraded body or with the successful one.
AskSynth(t) ==
    /\ pc[t] = "as_synth"
    /\ LET r == synthesize_from_sources(job[t].selected,
                                        req[t].selected_model, result[t])
           n == Len(job[t].selected)
       IN  SetReq(t, [ req[t] EXCEPT
                         !.status = "done",
                         !.result = r,
                         !.response = IF Get(r, "error", "") = "API_RATE_LIMITED"
                                      THEN DegradedResponse(r, n)
                                      ELSE SuccessResponse(r, n) ])
    /\ pc' = [ pc EXCEPT ![t] = "idle" ]
    /\ UNCHANGED << clock, limiter, env, tally, stack, wake, locals, gated, result,
                    calls, ret, research, asks, documents, cited, markup,
                    synthesis, outbound >>

\* A caller of its own calls build_citation_list(documents).
Cite ==
    /\ ~cited.done
    /\ cited' = [ NoCited EXCEPT !.done = TRUE,
                                 !.list = build_citation_list(documents),
                                 !.given = documents ]
    /\ UNCHANGED << clock, limiter, env, tally, pc, stack, wake, locals, gated,
                    result, calls, ret, research, req, asks, documents,
                    markup, synthesis, outbound >>

\* A build_citation_list that would go on counting where its last call
\* stopped.
CiteAgainCounting ==
    /\ cited.done
    /\ ~cited.again
    /\ cited' = [ cited EXCEPT
                    !.again = TRUE,
                    !.second = [ i \in 1 .. Len(documents) |->
                                   Citation(Len(cited.list) + i, documents[i]) ] ]
    /\ UNCHANGED << clock, limiter, env, tally, pc, stack, wake, locals, gated,
                    result, calls, ret, research, req, asks, documents,
                    markup, synthesis, outbound >>

\* The caller calls build_citation_list(documents) once more.
CiteAgain ==
    /\ cited.done
    /\ ~cited.again
    /\ cited' = [ cited EXCEPT !.again = TRUE,
                               !.second = build_citation_list(documents) ]
    /\ UNCHANGED << clock, limiter, env, tally, pc, stack, wake, locals, gated,
                    result, calls, ret, research, req, asks, documents,
                    markup, synthesis, outbound >>

\* A caller of its own calls synthesize_from_sources(question, documents,
\* model_id): the call_openrouter inside it starts.
Synthesize(t) ==
    /\ pc[t] = "idle"
    /\ synthesis.status = "none"
    /\ \E model_id \in ModelInputs :
         /\ synthesis' = [ NoSynthesis EXCEPT !.status = "running",
                                              !.model = model_id ]
         /\ Invoke(t, model_id, MAX_RETRIES, "sy_ret")
    /\ traffic' = [ traffic EXCEPT ![t] = { } ]
    /\ UNCHANGED << clock, limiter, setup, wake, locals, gated, calls, job,
                    jobs, req, asks, documents, cited, markup, outbound >>

\* call_openrouter is over and synthesize_from_sources returns its dict.
SynthesizeDone(t) ==
    /\ pc[t] = "sy_ret"
    /\ synthesis' = [ synthesis EXCEPT
                        !.status = "done",
                        !.result = synthesize_from_sources(
                                       documents, synthesis.model, result[t]) ]
    /\ pc' = [ pc EXCEPT ![t] = "idle" ]
    /\ UNCHANGED << clock, limiter, env, tally, stack, wake, locals, gated,
                    result, calls, ret, research, req, asks, documents, cited,
                    markup, outbound >>

\* A caller of its own calls format_superscripts(text, citations) with the
\* list build_citation_list gave it.
Rewrite ==
    /\ cited.done
    /\ ~markup.done
    /\ markup' = [ markup EXCEPT
                     !.done = TRUE,
                     !.formatted = format_superscripts(markup.text, cited.list) ]
    /\ UNCHANGED << clock, limiter, env, tally, pc, stack, wake, locals, gated,
                    result, calls, ret, research, req, asks, documents, cited,
                    synthesis, outbound >>

(* -------------------------------- time -------------------------------- *)
Sleeping(t) == pc[t] \in { "wait_sleep", "backoff", "ss_sleep", "fx_sleep" }
Waiting(t) == pc[t] = "inflight"

\* The latest instant the program has recorded.
RECURSIVE Latest(_)
Latest(log) ==
    IF log = << >> THEN last_request_time
    ELSE Max(log[Len(log)].at, Latest(SubSeq(log, 1, Len(log) - 1)))

\* The clock is read only to be compared with a recorded instant, against
\* RATE_LIMIT_DELAY: readings further past the latest recorded instant than
\* that are not told apart.
Horizon == Latest(outbound) + Seconds(RATE_LIMIT_DELAY) + 1

\* Time passes while some thread sleeps or waits for an answer; a sleeper
\* wakes when its time is over and an answer comes within MaxLatency.
Tick ==
    /\ \E t \in active : Sleeping(t) \/ Waiting(t)
    /\ \A t \in active : (Sleeping(t) \/ Waiting(t)) => wake[t] > 0
    /\ clock' = Min(clock + 1, Horizon)
    /\ wake' = [ t \in Threads |-> IF wake[t] > 0 THEN wake[t] - 1 ELSE 0 ]
    /\ UNCHANGED << limiter, env, tally, pc, stack, locals, gated,
                    result, outer, outbound >>

(* --------------------------- specifications --------------------------- *)
InitCommon ==
    /\ clock = Seconds(RATE_LIMIT_DELAY)
    /\ last_request_time = 0
    /\ request_count = 0
    /\ api_key \in BOOLEAN
    /\ provider = { }
    /\ pc = [ t \in Threads |-> "idle" ]
    /\ stack = [ t \in Threads |-> << >> ]
    /\ wake = [ t \in Threads |-> 0 ]
    /\ current_time = [ t \in Threads |-> 0 ]
    /\ loaded = [ t \in Threads |-> 0 ]
    /\ gated = [ t \in Threads |-> FALSE ]
    /\ result = [ t \in Threads |-> NoResult ]
    /\ calls = [ t \in Threads |-> 0 ]
    /\ ret = [ t \in Threads |-> "idle" ]
    /\ job = [ t \in Threads |-> NoJob ]
    /\ jobs = [ t \in Threads |-> 0 ]
    /\ traffic = [ t \in Threads |-> { } ]
    /\ req = [ t \in Threads |-> NoRequest ]
    /\ asks = [ t \in Threads |-> 0 ]
    /\ cited = NoCited
    /\ synthesis = NoSynthesis
    /\ tally = [ t \in Threads |-> NoTrail ]
    /\ outbound = << >>

\* A run that uses neither the search nor the extraction.
NoWeb ==
    /\ documents = << >>
    /\ markup = NoMarkup
    /\ serper_key = FALSE
    /\ search_throws = FALSE
    /\ search_provider = { }
    /\ organic_lists = { }
    /\ extract_provider = { }
    /\ article_fetch = { }

\* One sequential control flow calling call_openrouter.
InitClient == InitCommon /\ NoWeb /\ active = { 1 } /\ moods = { Outcomes }

NextClient ==
    \/ Tick
    \/ \E t \in active : Call(t)
    \/ \E t \in active : LoopHead(t)
    \/ \E t \in active : WaitRead(t)
    \/ \E t \in active : WaitSleep(t)
    \/ \E t \in active : WaitStamp(t)
    \/ \E t \in active : WaitLoad(t)
    \/ \E t \in active : WaitStore(t)
    \/ \E t \in active : Headers(t)
    \/ \E t \in active : Post(t)
    \/ \E t \in active : Respond(t)
    \/ \E t \in active : BackoffDone(t)

SpecClient == InitClient /\ [][NextClient]_vars

\* Several requests of the host running call_openrouter at once, on the one
\* process-wide rate_limiter, against a provider that answers every request
\* with a well-formed 200 (so no attempt is followed by a backoff).
InitConcurrent ==
    InitCommon /\ NoWeb /\ api_key /\ active = Threads /\ moods = { { "ok" } }

NextConcurrent ==
    \/ Tick
    \/ \E t \in active : Call(t)
    \/ \E t \in active : LoopHead(t)
    \/ \E t \in active : WaitRead(t)
    \/ \E t \in active : WaitSleep(t)
    \/ \E t \in active : WaitStamp(t)
    \/ \E t \in active : WaitLoad(t)
    \/ \E t \in active : WaitStore(t)
    \/ \E t \in active : Headers(t)
    \/ \E t \in active : Post(t)
    \/ \E t \in active : Respond(t)

SpecConcurrent == InitConcurrent /\ [][NextConcurrent]_vars

SearchOutcomes == { "s200", "s429", "s402", "status", "request_error", "error" }
ExtractOutcomes == { "s200", "s429", "status", "error" }
FetchOutcomes == { "parsed", "error", "import_error" }

\* One sequential control flow calling researcher_job, the search being the
\* real serper_search or a double that raises, and each LLM call meeting a
\* provider that answers its requests well or one that refuses them all.
InitResearch ==
    /\ InitCommon
    /\ api_key
    /\ documents = << >>
    /\ markup = NoMarkup
    /\ active = { 1 }
    /\ moods = { { "ok" }, { "s401" } }
    /\ serper_key \in BOOLEAN
    /\ search_throws \in BOOLEAN
    /\ search_provider = SearchOutcomes
    /\ organic_lists = OrganicLists
    /\ extract_provider = ExtractOutcomes
    /\ article_fetch = FetchOutcomes

NextResearch ==
    \/ Tick
    \/ \E t \in active : Research(t)
    \/ \E t \in active : SearchRaises(t)
    \/ \E t \in active : SerperAttempt(t)
    \/ \E t \in active : SerperWake(t)
    \/ \E t \in active : OpenrouterSearch(t)
    \/ \E t \in active : OpenrouterSearchDone(t)
    \/ \E t \in active : Candidate(t)
    \/ \E t \in active : Hosted(t)
    \/ \E t \in active : HostedWake(t)
    \/ \E t \in active : Direct(t)
    \/ \E t \in active : SyntheticCanned(t)
    \/ \E t \in active : SyntheticCall(t)
    \/ \E t \in active : SyntheticDone(t)
    \/ \E t \in active : ResearchReturn(t)
    \/ \E t \in active : LoopHead(t)
    \/ \E t \in active : WaitRead(t)
    \/ \E t \in active : WaitSleep(t)
    \/ \E t \in active : WaitStamp(t)
    \/ \E t \in active : WaitLoad(t)
    \/ \E t \in active : WaitStore(t)
    \/ \E t \in active : Headers(t)
    \/ \E t \in active : Post(t)
    \/ \E t \in active : Respond(t)
    \/ \E t \in active : BackoffDone(t)

SpecResearch == InitResearch /\ [][NextResearch]_vars

\* The same, every step that can be taken being taken in the end: a sleep
\* ends, a request is answered or times out, the interpreter goes on.
FairResearch == SpecResearch /\ WF_vars(NextResearch)

\* One request after another to /ask, the key of the search being unset (so
\* that the search and the hosted extraction send nothing), the article fetch
\* working or failing, and each LLM call meeting a provider that answers its
\* requests well or one that refuses them all with a 401.
InitAsk ==
    /\ InitCommon
    /\ api_key
    /\ documents = << >>
    /\ markup = NoMarkup
    /\ active = { 1 }
    /\ moods = { { "ok" }, { "s401" } }
    /\ serper_key = FALSE
    /\ search_throws = FALSE
    /\ search_provider = { }
    /\ organic_lists = { }
    /\ extract_provider = { }
    /\ article_fetch = { "parsed", "error" }

NextAsk ==
    \/ Tick
    \/ \E t \in active : Ask(t)
    \/ \E t \in active : AskSources(t)
    \/ \E t \in active : AskSynth(t)
    \/ \E t \in active : SerperAttempt(t)
    \/ \E t \in active : OpenrouterSearch(t)
    \/ \E t \in active : OpenrouterSearchDone(t)
    \/ \E t \in active : Candidate(t)
    \/ \E t \in active : Hosted(t)
    \/ \E t \in active : HostedWake(t)
    \/ \E t \in active : Direct(t)
    \/ \E t \in active : SyntheticCanned(t)
    \/ \E t \in active : SyntheticCall(t)
    \/ \E t \in active : SyntheticDone(t)
    \/ \E t \in active : ResearchReturn(t)
    \/ \E t \in active : LoopHead(t)
    \/ \E t \in active : WaitRead(t)
    \/ \E t \in active : WaitSleep(t)
    \/ \E t \in active : WaitStamp(t)
    \/ \E t \in active : WaitLoad(t)
    \/ \E t \in active : WaitStore(t)
    \/ \E t \in active : Headers(t)
    \/ \E t \in active : Post(t)
    \/ \E t \in active : Respond(t)
    \/ \E t \in active : BackoffDone(t)

SpecAsk == InitAsk /\ [][NextAsk]_vars

\* The requests to /ask of the specification below: a question on each of the
\* two topics the code tells apart, for a model other than the default one.
AskedQuestions ==
    { Question(0, QUESTION_MIN, 0, "other"),
      Question(0, QUESTION_MAX - 1, 2, "rice kano") }
AskedModels == { "x-ai/grok-4-fast:free" }

\* A request to /ask in front of every outcome of the search (its key set or
\* not, the search answering in each of its ways or raising), of the hosted
\* extraction and of the article fetch, each LLM call meeting a provider that
\* answers its requests well or one that refuses them all with a 401.
InitOutcomes ==
    /\ InitCommon
    /\ api_key
    /\ documents = << >>
    /\ markup = NoMarkup
    /\ active = { 1 }
    /\ moods = { { "ok" }, { "s401" } }
    /\ serper_key \in BOOLEAN
    /\ search_throws \in BOOLEAN
    /\ search_provider = SearchOutcomes
    /\ organic_lists = OrganicLists
    /\ extract_provider = ExtractOutcomes
    /\ article_fetch = FetchOutcomes

NextOutcomes ==
    \/ Tick
    \/ \E t \in active : /\ Ask(t)
                         /\ req'[t].question \in AskedQuestions
                         /\ req'[t].model \in AskedModels
    \/ \E t \in active : AskSources(t)
    \/ \E t \in active : AskSynth(t)
    \/ \E t \in active : SearchRaises(t)
    \/ \E t \in active : SerperAttempt(t)
    \/ \E t \in active : SerperWake(t)
    \/ \E t \in active : OpenrouterSearch(t)
    \/ \E t \in active : OpenrouterSearchDone(t)
    \/ \E t \in active : Candidate(t)
    \/ \E t \in active : Hosted(t)
    \/ \E t \in active : HostedWake(t)
    \/ \E t \in active : Direct(t)
    \/ \E t \in active : SyntheticCanned(t)
    \/ \E t \in active : SyntheticCall(t)
    \/ \E t \in active : SyntheticDone(t)
    \/ \E t \in active : ResearchReturn(t)
    \/ \E t \in active : LoopHead(t)
    \/ \E t \in active : WaitRead(t)
    \/ \E t \in active : WaitSleep(t)
    \/ \E t \in active : WaitStamp(t)
    \/ \E t \in active : WaitLoad(t)
    \/ \E t \in active : WaitStore(t)
    \/ \E t \in active : Headers(t)
    \/ \E t \in active : Post(t)
    \/ \E t \in active : Respond(t)
    \/ \E t \in active : BackoffDone(t)

SpecOutcomes == InitOutcomes /\ [][NextOutcomes]_vars

\* A request to /ask for one of two questions and any model id a caller may
\* send, no search key configured, so that the URLs come from the LLM and the
\* content of each of them is generated by the LLM, each LLM call meeting a
\* provider that answers its requests well or one that refuses them all with
\* a 400.
InitModels ==
    /\ InitCommon
    /\ api_key
    /\ documents = << >>
    /\ markup = NoMarkup
    /\ active = { 1 }
    /\ moods = { { "ok" }, { "s400" } }
    /\ serper_key = FALSE
    /\ search_throws = FALSE
    /\ search_provider = { }
    /\ organic_lists = { }
    /\ extract_provider = { }
    /\ article_fetch = { "parsed", "error" }

NextModels ==
    \/ Tick
    \/ \E t \in active : /\ Ask(t)
                         /\ req'[t].question \in AskedQuestions
    \/ \E t \in active : AskSources(t)
    \/ \E t \in active : AskSynth(t)
    \/ \E t \in active : SerperAttempt(t)
    \/ \E t \in active : OpenrouterSearch(t)
    \/ \E t \in active : OpenrouterSearchDone(t)
    \/ \E t \in active : Candidate(t)
    \/ \E t \in active : Hosted(t)
    \/ \E t \in active : HostedWake(t)
    \/ \E t \in active : Direct(t)
    \/ \E t \in active : SyntheticCanned(t)
    \/ \E t \in active : SyntheticCall(t)
    \/ \E t \in active : SyntheticDone(t)
    \/ \E t \in active : ResearchReturn(t)
    \/ \E t \in active : LoopHead(t)
    \/ \E t \in active : WaitRead(t)
    \/ \E t \in active : WaitSleep(t)
    \/ \E t \in active : WaitStamp(t)
    \/ \E t \in active : WaitLoad(t)
    \/ \E t \in active : WaitStore(t)
    \/ \E t \in active : Headers(t)
    \/ \E t \in active : Post(t)
    \/ \E t \in active : Respond(t)
    \/ \E t \in active : BackoffDone(t)

SpecModels == InitModels /\ [][NextModels]_vars

\* The titles and urls of the documents handed to build_citation_list: a
\* title, a title with a dash in it, an empty title, no title at all.
DocTitles == { << "A" >>, << "A", " ", EM_DASH, " ", "B" >>, << >> }
DocUrls == { Link(1), Link(2) }
Documents ==
    { [ url |-> u, title |-> title ] : u \in DocUrls, title \in DocTitles }
    \cup { [ url |-> u ] : u \in DocUrls }

RECURSIVE DocLists(_)
DocLists(n) ==
    IF n = 0 THEN { << >> }
    ELSE DocLists(n - 1)
         \cup { Append(l, d) : l \in { x \in DocLists(n - 1) : Len(x) = n - 1 },
                               d \in Documents }

\* build_citation_list on its own, over every list of up to MaxDocs documents.
InitCitations ==
    /\ InitCommon
    /\ api_key
    /\ active = { }
    /\ moods = { }
    /\ serper_key = FALSE
    /\ search_throws = FALSE
    /\ search_provider = { }
    /\ organic_lists = { }
    /\ extract_provider = { }
    /\ article_fetch = { }
    /\ documents \in DocLists(MaxDocs)
    /\ markup = NoMarkup

NextCitations == Cite

SpecCitations == InitCitations /\ [][NextCitations]_vars

\* The lists of up to n members of a set.
RECURSIVE Lists(_, _)
Lists(set, n) ==
    IF n = 0 THEN { << >> }
    ELSE Lists(set, n - 1)
         \cup { Append(l, d) : l \in { x \in Lists(set, n - 1) : Len(x) = n - 1 },
                               d \in set }

\* A url with an em dash in its path.
DashLink == << "https", ":", "//", "h", "/", "a", EM_DASH, "b" >>

MarkerDocs ==
    { [ url |-> u, title |-> << "A" >> ] : u \in { Link(1), Link(2), DashLink } }
    \cup { [ url |-> u ] : u \in { Link(1), DashLink } }

\* Answers with markers: two different ones, one twice, one beyond MaxDocs
\* citations, none.
MarkerTexts ==
    { << "See", " ", "[", "1", "]", " ", "and", " ", "[", "2", "]", "." >>,
      << "[", "1", "]", "[", "1", "]" >>,
      << "See", " " >> \o Marker(MaxDocs + 1) \o << "." >>,
      << "none" >> }

\* build_citation_list and then format_superscripts on their own, over the
\* lists of up to MaxDocs documents and the answers above.
InitMarkers ==
    /\ InitCommon
    /\ api_key
    /\ active = { }
    /\ moods = { }
    /\ serper_key = FALSE
    /\ search_throws = FALSE
    /\ search_provider = { }
    /\ organic_lists = { }
    /\ extract_provider = { }
    /\ article_fetch = { }
    /\ documents \in Lists(MarkerDocs, MaxDocs)
    /\ markup \in { [ NoMarkup EXCEPT !.text = text ] : text \in MarkerTexts }

NextMarkers ==
    \/ Cite
    \/ Rewrite

SpecMarkers == InitMarkers /\ [][NextMarkers]_vars

\* The documents handed to synthesize_from_sources: with a title, with an
\* empty one, with an em dash in the url.
SynthesisDocs ==
    { [ url |-> Link(1), title |-> << "A" >> ],
      [ url |-> Link(2), title |-> << >> ],
      [ url |-> DashLink, title |-> << "B" >> ] }

\* synthesize_from_sources on its own, over the lists of up to MaxSources
\* documents, its LLM call meeting a provider that answers well, one that
\* refuses every request with a 401, or one that answers every request with
\* a status below 400 other than 200.
InitSynthesis ==
    /\ InitCommon
    /\ api_key
    /\ active = { 1 }
    /\ moods = { { "ok" }, { "s401" }, { "other" } }
    /\ serper_key = FALSE
    /\ search_throws = FALSE
    /\ search_provider = { }
    /\ organic_lists = { }
    /\ extract_provider = { }
    /\ article_fetch = { }
    /\ documents \in Lists(SynthesisDocs, MaxSources)
    /\ markup = NoMarkup

NextSynthesis ==
    \/ Tick
    \/ \E t \in active : Synthesize(t)
    \/ \E t \in active : SynthesizeDone(t)
    \/ \E t \in active : LoopHead(t)
    \/ \E t \in active : WaitRead(t)
    \/ \E t \in active : WaitSleep(t)
    \/ \E t \in active : WaitStamp(t)
    \/ \E t \in active : WaitLoad(t)
    \/ \E t \in active : WaitStore(t)
    \/ \E t \in active : Headers(t)
    \/ \E t \in active : Post(t)
    \/ \E t \in active : Respond(t)
    \/ \E t \in active : BackoffDone(t)

SpecSynthesis == InitSynthesis /\ [][NextSynthesis]_vars

\* One sequential control flow calling serper_search, with the key of the
\* search set or not, the search endpoint answering in any way, and the LLM
\* call of openrouter_search meeting a provider that answers well, one that
\* refuses every request with a 401, or one that answers every request with
\* a status below 400 other than 200.
InitSearch ==
    /\ InitCommon
    /\ api_key
    /\ documents = << >>
    /\ markup = NoMarkup
    /\ active = { 1 }
    /\ moods = { { "ok" }, { "s401" }, { "other" } }
    /\ serper_key \in BOOLEAN
    /\ search_throws = FALSE
    /\ search_provider = SearchOutcomes
    /\ organic_lists = OrganicLists
    /\ extract_provider = { }
    /\ article_fetch = { }

NextSearch ==
    \/ Tick
    \/ \E t \in active : Search(t)
    \/ \E t \in active : SerperAttempt(t)
    \/ \E t \in active : SerperWake(t)
    \/ \E t \in active : OpenrouterSearch(t)
    \/ \E t \in active : OpenrouterSearchDone(t)
    \/ \E t \in active : LoopHead(t)
    \/ \E t \in active : WaitRead(t)
    \/ \E t \in active : WaitSleep(t)
    \/ \E t \in active : WaitStamp(t)
    \/ \E t \in active : WaitLoad(t)
    \/ \E t \in active : WaitStore(t)
    \/ \E t \in active : Headers(t)
    \/ \E t \in active : Post(t)
    \/ \E t \in active : Respond(t)
    \/ \E t \in active : BackoffDone(t)

SpecSearch == InitSearch /\ [][NextSearch]_vars

\* The five organic results of a search whose every result is well formed:
\* three carry their content, two have to be extracted.
FiveResults == << "inline", "short", "inline", "short", "inline" >>

\* One request after another to /ask with every service at its best: the
\* search endpoint answers 200 with five well-formed results, the extraction
\* endpoint answers 200, the article fetch parses, the LLM provider answers
\* every request with a well-formed 200. A request makes one LLM call, which
\* wait_if_needed lets pass without a sleep.
InitPipeline ==
    /\ InitCommon
    /\ api_key
    /\ documents = << >>
    /\ markup = NoMarkup
    /\ active = { 1 }
    /\ moods = { { "ok" } }
    /\ serper_key = TRUE
    /\ search_throws = FALSE
    /\ search_provider = { "s200" }
    /\ organic_lists = { FiveResults }
    /\ extract_provider = { "s200" }
    /\ article_fetch = { "parsed" }

NextPipeline ==
    \/ Tick
    \/ \E t \in active : Ask(t)
    \/ \E t \in active : AskSources(t)
    \/ \E t \in active : AskSynth(t)
    \/ \E t \in active : SerperAttempt(t)
    \/ \E t \in active : Candidate(t)
    \/ \E t \in active : Hosted(t)
    \/ \E t \in active : Direct(t)
    \/ \E t \in active : ResearchReturn(t)
    \/ \E t \in active : LoopHead(t)
    \/ \E t \in active : WaitRead(t)
    \/ \E t \in active : WaitStamp(t)
    \/ \E t \in active : WaitLoad(t)
    \/ \E t \in active : WaitStore(t)
    \/ \E t \in active : Headers(t)
    \/ \E t \in active : Post(t)
    \/ \E t \in active : Respond(t)

SpecPipeline == InitPipeline /\ [][NextPipeline]_vars

\* build_citation_list, format_superscripts on the list it returned and
\* build_citation_list once more, over the lists of up to MaxDocs documents
\* and the answers above.
NextTwice ==
    \/ Cite
    \/ Rewrite
    \/ CiteAgain

SpecTwice == InitMarkers /\ [][NextTwice]_vars

(* ------------------------------ claims -------------------------------- *)
\* Thread t's logical call has ended.
Completed(t) == pc[t] = "idle" /\ result[t].status # "none"

\* C1 (as stated): whenever every attempt of a call_openrouter call fails, the
\* call returns a non-empty degraded-mode text and does not raise.
C1_DegradedNeverRaises ==
    \A t \in active :
        (Completed(t) /\ result[t].origin # "model")
            => (result[t].status = "returned" /\ result[t].text # << >>)

\* C2: every outbound LLM request follows its own pass through wait_if_needed,
\* and two consecutive outbound requests are at least RATE_LIMIT_DELAY apart,
\* whichever model each targets.
C2_SequentialSpacing ==
    /\ \A i \in 1 .. Len(outbound) : outbound[i].gated
    /\ Len(outbound) = 2
         => outbound[2].at - outbound[1].at >= Seconds(RATE_LIMIT_DELAY)

\* C2 witness: two consecutive requests to different models, the second one
\* (the recursive call on the default model after a 400) held back by the gate
\* to exactly RATE_LIMIT_DELAY after the first.
C2_Witness ==
    /\ Len(outbound) = 2
    /\ outbound[1].model # outbound[2].model
    /\ outbound[2].at - outbound[1].at = Seconds(RATE_LIMIT_DELAY)
    /\ request_count = 2

\* C3 (as stated): with requests running call_openrouter concurrently on the
\* shared rate_limiter, no two outbound LLM requests are issued less than
\* RATE_LIMIT_DELAY apart.
C3_ConcurrentSpacing ==
    Len(outbound) = 2
        => outbound[2].at - outbound[1].at >= Seconds(RATE_LIMIT_DELAY)

\* The researcher_job of thread t has ended.
Ended(t) == job[t].status \in { "returned", "raised" }

\* C4 (as stated): researcher_job returns a list of at least min(2, top_k) and
\* at most top_k documents.
C4_LengthWithinTopK ==
    \A t \in active :
        Ended(t) =>
            /\ job[t].status = "returned"
            /\ Len(job[t].selected) >= Min(2, job[t].top_k)
            /\ Len(job[t].selected) <= job[t].top_k

\* C4 (amended): researcher_job returns a list of at least min(2, top_k) and at
\* most max(2, top_k) documents.
C4_LengthWithinFloor ==
    \A t \in active :
        Ended(t) =>
            /\ job[t].status = "returned"
            /\ Len(job[t].selected) >= Min(2, job[t].top_k)
            /\ Len(job[t].selected) <= Max(2, job[t].top_k)

\* C4 witness: asked for one document, researcher_job has returned two, the
\* one it collected and a synthetic one.
C4_Witness ==
    /\ job[1].status = "returned"
    /\ job[1].top_k = 1
    /\ Len(job[1].selected) = 2
    /\ ~job[1].selected[1].synthetic
    /\ job[1].selected[2].synthetic

\* No document of the list came out of an extraction.
NoExtraction(docs) ==
    \A i \in 1 .. Len(docs) : docs[i].via \notin { "hosted", "direct" }

\* C5: when the search step raises and no extraction succeeds, researcher_job
\* still returns at least min(2, top_k) documents, each with synthetic = true.
C5_TotalCollapse ==
    \A t \in active :
        (Ended(t) /\ job[t].search = "raised" /\ NoExtraction(job[t].selected))
            => /\ job[t].status = "returned"
               /\ Len(job[t].selected) >= Min(2, job[t].top_k)
               /\ \A i \in 1 .. Len(job[t].selected) :
                      job[t].selected[i].synthetic

\* C5 witness: the search raised, the LLM failed as well, and researcher_job
\* returned three synthetic documents carrying the error tag.
C5_Witness ==
    /\ job[1].status = "returned"
    /\ job[1].search = "raised"
    /\ job[1].top_k = 3
    /\ Len(job[1].selected) = 3
    /\ \A i \in 1 .. 3 :
         /\ job[1].selected[i].synthetic
         /\ job[1].selected[i].error = "CONTENT_GENERATION_FAILED"

\* C6: researcher_job always terminates and never raises: a running job ends
\* by returning a non-empty list.
C6_Terminates ==
    \A t \in Threads :
        (job[t].status = "running")
            ~> (job[t].status = "returned" /\ Len(job[t].selected) >= 1)

\* C6 witness: the primary search failed, a hit of the LLM-driven search could
\* not be extracted, an LLM call for synthetic content raised, and the job
\* has returned.
C6_Witness ==
    /\ job[1].status = "returned"
    /\ job[1].search = "secondary"
    /\ job[1].failed_urls # << >>
    /\ \E i \in 1 .. Len(job[1].selected) :
         job[1].selected[i].error = "CONTENT_GENERATION_FAILED"


\* The id of the request of t went through validate_model.
Resolved(t) ==
    \/ req[t].status = "running"
    \/ req[t].status = "done"
         /\ Get(req[t].response, "error_type", "") # "INVALID_INPUT"

\* C7: validate_model returns a key of AVAILABLE_MODELS whatever it is given:
\* a known id unchanged, DEFAULT_MODEL for an empty, missing or unknown one;
\* applying it again changes nothing, and the model_id of every result of
\* synthesize_from_sources is a key of AVAILABLE_MODELS.
C7_ResolveToCatalog ==
    \A t \in Threads :
        Resolved(t) =>
            /\ req[t].selected_model \in AVAILABLE_MODELS
            /\ req[t].model \in AVAILABLE_MODELS
                  => req[t].selected_model = req[t].model
            /\ req[t].model \notin AVAILABLE_MODELS
                  => req[t].selected_model = DEFAULT_MODEL
            /\ validate_model(req[t].selected_model) = req[t].selected_model
            /\ "model_id" \in DOMAIN req[t].result
                  => req[t].result.model_id \in AVAILABLE_MODELS

\* A request naming a model outside the catalog was answered in full, on the
\* default model.
C7_Witness ==
    \E t \in Threads :
        /\ req[t].status = "done"
        /\ req[t].model = "anthropic/claude-3.5-sonnet"
        /\ "model_id" \in DOMAIN req[t].result
        /\ "error" \notin DOMAIN req[t].result
        /\ req[t].result.model_id = DEFAULT_MODEL

InRange(n) == n >= QUESTION_MIN /\ n <= QUESTION_MAX

\* C8: a question is accepted exactly when its length after trimming is in
\* [3, 1000]; when it is 0, 1, 2 or above 1000 the handler answers
\* INVALID_INPUT and has sent no request to the search, the extraction or the
\* LLM.
C8_QuestionBounds ==
    \A t \in Threads :
        req[t].status # "none" =>
            /\ InRange(req[t].question.body) => Resolved(t)
            /\ ~InRange(req[t].question.body) =>
                  /\ req[t].status = "done"
                  /\ req[t].response.ok = FALSE
                  /\ req[t].response.error_type = "INVALID_INPUT"
                  /\ traffic[t] = { }

\* A question of two characters between blanks, four as it came, was refused.
C8_Witness ==
    \E t \in Threads :
        /\ req[t].status = "done"
        /\ req[t].question = Question(1, QUESTION_MIN - 1, 1, "other")
        /\ req[t].response = ErrorResponse("INVALID_INPUT", HTTP_BAD_REQUEST)
        /\ traffic[t] = { }

\* The model field names an id that is neither missing, empty nor in the
\* catalog.
InvalidModel(t) ==
    /\ req[t].status # "none"
    /\ req[t].model \notin AVAILABLE_MODELS \cup { None, "" }

\* C9 as stated: a request whose model field is an invalid id is answered
\* with an input validation error, no request having been sent to the
\* search, the extraction or the LLM.
C9_InvalidModelRejected ==
    \A t \in Threads :
        InvalidModel(t) =>
            /\ req[t].status = "done"
            /\ Get(req[t].response, "error_type", "") = "INVALID_INPUT"
            /\ req[t].response.status_code = HTTP_BAD_REQUEST
            /\ traffic[t] = { }

\* C9: a request whose model field is an invalid id is refused only if its
\* question is; with a valid question it is handled on DEFAULT_MODEL and
\* its answer is not an error.
C9_InvalidModelDefaulted ==
    \A t \in Threads :
        InvalidModel(t) =>
            /\ Get(req[t].response, "error_type", "") = "INVALID_INPUT"
                  <=> ~InRange(req[t].question.body)
            /\ InRange(req[t].question.body) =>
                  /\ req[t].selected_model = DEFAULT_MODEL
                  /\ req[t].status = "done" =>
                        /\ req[t].response.ok
                        /\ req[t].response.status_code = HTTP_OK
                        /\ req[t].response.model_used
                              = get_model_config(DEFAULT_MODEL)

\* A valid question with a model outside the catalog was answered, the LLM
\* having been asked.
C9_Witness ==
    \E t \in Threads :
        /\ InvalidModel(t)
        /\ req[t].status = "done"
        /\ req[t].response.ok
        /\ "llm" \in traffic[t]

\* C10: build_citation_list returns one string for each document, in the
\* order of the documents, the n-th being "[n] <title> - <url>" with an em
\* dash, where <title> is the url when the document has no title.
C10_CitationList ==
    cited.done =>
        /\ Len(cited.list) = Len(documents)
        /\ \A n \in 1 .. Len(documents) :
             LET d == documents[n]
                 title == IF "title" \in DOMAIN d /\ d.title # << >>
                          THEN d.title ELSE d.url
             IN  cited.list[n]
                   = << "[", Digits[n + 1], "]", " " >> \o title
                       \o << " ", EM_DASH, " " >> \o d.url

\* Two documents were listed, the first with a title and the second without.
C10_Witness ==
    /\ cited.done
    /\ Len(documents) = 2
    /\ "title" \in DOMAIN documents[1]
    /\ documents[1].title # << >>
    /\ "title" \notin DOMAIN documents[2]
    /\ Len(cited.list) = 2


\* The number a digit stands for.

\* text from its i-th token on, each marker [n] with n from 1 to the number
\* of documents replaced by the linked form carrying the url of document n.
RECURSIVE Linked(_, _, _)
Linked(text, docs, i) ==
    IF i > Len(text) THEN << >>
    ELSE IF /\ i + 2 <= Len(text)
            /\ text[i] = "[" /\ text[i + 1] \in DigitSet /\ text[i + 2] = "]"
            /\ DigitValue(text[i + 1]) \in 1 .. Len(docs)
         THEN Superscript(docs[DigitValue(text[i + 1])].url,
                          DigitValue(text[i + 1]))
              \o Linked(text, docs, i + 3)
         ELSE << text[i] >> \o Linked(text, docs, i + 1)

\* C11 (as stated): format_superscripts replaces every occurrence of [n], n
\* from 1 to the number of citations, by a linked form carrying the url of
\* citation n, and leaves every other marker as it is.
C11_MarkersLinked ==
    markup.done => markup.formatted = Linked(markup.text, documents, 1)


\* s holds part as a run of consecutive tokens.
Holds(s, part) == \E i \in 1 .. Len(s) + 1 : StartsAt(s, part, i)

\* C12 (as stated): in every dict synthesize_from_sources returns, citations
\* has one entry for each document, the n-th numbered [n] and holding the
\* title and the url of document n, and in the answer made from the model's
\* text the link put for [n] points to the url of document n.
C12_CitationsAligned ==
    synthesis.status = "done" =>
        LET r == synthesis.result
        IN  /\ Len(r.citations) = Len(documents)
            /\ \A n \in 1 .. Len(documents) :
                 /\ StartsAt(r.citations[n], Marker(n), 1)
                 /\ Holds(r.citations[n], documents[n].title)
                 /\ Holds(r.citations[n], documents[n].url)
            /\ "error" \notin DOMAIN r
                 => r.answer = Linked(result[1].text, documents, 1)


\* C13: synthesize_from_sources always returns a dict: without an error field
\* when its model call returned a text, and when the call raised a degraded
\* one with error = API_RATE_LIMITED, an answer holding the titles and urls
\* of the first 3 documents, a citation for every document and a non-empty
\* suggested_alternatives.
C13_SynthesisNeverRaises ==
    /\ synthesis.status = "running" => pc[1] # "idle"
    /\ synthesis.status = "done" =>
         LET r == synthesis.result
         IN  /\ "answer" \in DOMAIN r
             /\ result[1].status = "returned" => "error" \notin DOMAIN r
             /\ result[1].status = "raised" =>
                  /\ "error" \in DOMAIN r
                  /\ r.error = "API_RATE_LIMITED"
                  /\ \A n \in 1 .. Min(3, Len(documents)) :
                       /\ Holds(r.answer, documents[n].title)
                       /\ Holds(r.answer, documents[n].url)
                  /\ Len(r.citations) = Len(documents)
                  /\ \A n \in 1 .. Len(documents) :
                       Holds(r.citations[n], documents[n].url)
                  /\ Len(r.suggested_alternatives) > 0

\* The model call raised with four documents at hand: the degraded dict names
\* three of them and cites the four.
C13_Witness ==
    /\ synthesis.status = "done"
    /\ result[1].status = "raised"
    /\ Len(documents) = 4
    /\ synthesis.result.error = "API_RATE_LIMITED"
    /\ Holds(synthesis.result.answer, << "* ..." >>)
    /\ Len(synthesis.result.citations) = 4


\* The serper_search a caller of its own made on thread t has returned.
Searched(t) == job[t].status = "searched"

\* C14 (as stated): whichever path gives the result, serper_search(query,
\* num_results) returns at most num_results hits.
C14_AtMostNumResults ==
    \A t \in Threads :
        Searched(t) => Len(job[t].hits) <= job[t].num_results

\* The search of thread t stands in the loop of serper_search.
InPrimary(t) == pc[t] \in { "rj_search", "ss_sleep" }

\* What holds of the primary path in every state.
PrimaryBounded ==
    \A t \in Threads :
      /\ job[t].requests <= SERPER_RETRIES
      /\ job[t].secondary <= 1
      /\ job[t].answer = "s429" => pc[t] = "ss_sleep"
      /\ job[t].paid => ~InPrimary(t)
      /\ Searched(t) =>
            /\ job[t].answer = "s200" <=> job[t].search = "primary"
            /\ job[t].search = "primary" => job[t].secondary = 0
            /\ job[t].search # "primary" =>
                  /\ job[t].search \in { "secondary", "tertiary" }
                  /\ job[t].secondary = 1

\* What holds of every step of the primary path: the sleep after a 429 ends
\* in the next pass of the loop, and a pass with attempts left and the key
\* set sends a request.
PrimaryRetried ==
    \A t \in Threads :
      /\ pc[t] = "ss_sleep" /\ pc'[t] # "ss_sleep" =>
            /\ pc'[t] = "rj_search"
            /\ job'[t].attempt = job[t].attempt + 1
            /\ job'[t].requests = job[t].requests
      /\ ( /\ pc[t] = "rj_search" /\ pc'[t] # "rj_search"
           /\ job[t].attempt < SERPER_RETRIES /\ serper_key ) =>
            job'[t].requests = job[t].requests + 1

\* C15: serper_search sends at most 3 requests to the search endpoint per
\* search; a 429 is followed by a sleep and, while attempts remain, by
\* another request; after a 402 no further request is sent to the search
\* endpoint; and a search whose primary path ends without a 200 calls
\* openrouter_search exactly once.
C15_PrimaryPath == []PrimaryBounded /\ [][PrimaryRetried]_vars

\* A finished search whose first request met a 429, whose next request met
\* a 402, and which then went through openrouter_search once.
C15_Witness ==
    \E t \in Threads :
      /\ Searched(t)
      /\ job[t].limited = 1
      /\ job[t].requests = 2
      /\ job[t].paid
      /\ job[t].secondary = 1

\* The loop of serper_search of thread t can send no further request: the
\* key is unset, a request was answered 402 or raised an unexpected
\* exception, or the three requests are spent.
PrimaryExhausted(t) ==
    \/ ~serper_key
    \/ job[t].paid
    \/ job[t].answer = "error"
    \/ job[t].requests = SERPER_RETRIES

\* How the call_openrouter of this search's openrouter_search ended: "none"
\* while the search has not called openrouter_search.
SecondaryEnded(t) ==
    IF job[t].secondary > 0 THEN result[t].status ELSE "none"

\* C16: openrouter_search is called only after the loop of serper_search is
\* exhausted; a finished search returns the catalog of get_fallback_sources
\* if and only if the call of openrouter_search raised; and when that call
\* returned a text, the search returns the hits of the lines that parse into
\* a valid http(s) url, the other lines being skipped.
C16_FallbackChain ==
    \A t \in Threads :
      /\ (pc[t] = "os_call" \/ job[t].secondary > 0) =>
            /\ ~InPrimary(t)
            /\ job[t].answer # "s200"
            /\ PrimaryExhausted(t)
      /\ Searched(t) =>
            /\ job[t].search = "tertiary" <=> SecondaryEnded(t) = "raised"
            /\ job[t].search = "tertiary" => job[t].hits = get_fallback_sources
            /\ SecondaryEnded(t) = "returned" =>
                  /\ job[t].search = "secondary"
                  /\ Len(job[t].hits) <= Len(SplitLines(result[t].text))
                  /\ \A i \in 1 .. Len(job[t].hits) :
                        is_valid_url(job[t].hits[i].url)

\* A finished search whose listing of three lines, the third without a url,
\* gave the hits of the first two.
C16_Witness ==
    \E t \in Threads :
      /\ Searched(t)
      /\ job[t].search = "secondary"
      /\ job[t].num_results = MaxResults
      /\ result[t].text = Listing
      /\ Len(SplitLines(Listing)) = 3
      /\ Len(job[t].hits) = 2

\* C17: with SERPER_API_KEY unset serper_search sends no request to the
\* search endpoint, does not raise, and returns what openrouter_search
\* returns: the hits parsed from the model's text, or the catalog of
\* get_fallback_sources when the model call raised.
C17_NoKeyNoRequest ==
    ~serper_key =>
      \A t \in Threads :
        /\ "search" \notin traffic[t]
        /\ job[t].requests = 0
        /\ job[t].status # "raised"
        /\ pc[t] # "ss_sleep"
        /\ Searched(t) =>
              /\ job[t].secondary = 1
              /\ job[t].hits = openrouter_search(job[t], result[t]).hits
              /\ job[t].search = openrouter_search(job[t], result[t]).search

\* A search without the key that returned the hits of the model's listing.
C17_Witness ==
    /\ ~serper_key
    /\ \E t \in Threads :
          /\ Searched(t)
          /\ job[t].search = "secondary"
          /\ job[t].hits # << >>
          /\ "search" \notin traffic[t]

\* C18: with OPENROUTER_API_KEY unset a call of call_openrouter sends no
\* request, never sleeps a backoff, never goes past its first attempt, and
\* ends raising.
C18_FailsFast ==
    ~api_key =>
      \A t \in Threads :
        /\ tally[t].posts = 0
        /\ tally[t].sleeps = 0
        /\ stack[t] # << >> => Top(stack[t]).attempt = 0
        /\ (Completed(t) /\ tally[t].budget > 0) =>
              result[t].status = "raised"

\* C19: once a request of a logical call was answered 401, 402, or 400 with
\* the default model in use, the call sends no further request, and it ends
\* raising.
C19_FatalNotRetried ==
    \A t \in Threads :
      /\ ~tally[t].retried
      /\ (Completed(t) /\ tally[t].fatal) => result[t].status = "raised"

\* C20: a logical call with budget N sends at most N requests, those to the
\* default model after a 400 included; it switches to the default model at
\* most once; and after the switch it sends no request for the model it was
\* called with.
C20_BudgetKept ==
    \A t \in Threads :
      /\ tally[t].posts <= tally[t].budget
      /\ tally[t].switches <= 1
      /\ ~tally[t].back

\* The request of thread t is answered, its synthesis phase has run, and the
\* call_openrouter of that phase raised after an answer 401, 402, or 400 on
\* the default model.
SynthesisFatal(t) ==
    /\ req[t].status = "done"
    /\ "none" \notin DOMAIN req[t].result
    /\ result[t].status = "raised"
    /\ tally[t].fatal

\* C21: a request to /ask whose synthesis call failed on a fatal answer of
\* the provider is not answered with the ok = true body that carries the
\* warning of the API_RATE_LIMITED case.
C21_FatalSurfaced ==
    \A t \in Threads :
      SynthesisFatal(t) =>
        ~(req[t].response.ok /\ "warning" \in DOMAIN req[t].response)

\* The fields every ok = true body of /ask is to carry.
OkFields ==
    { "answer", "citations", "source_count", "processing_time", "model_used",
      "model_id" }

\* C22: every ok = true response of /ask, the one with warning and
\* suggested_alternatives included, carries answer, citations, source_count,
\* processing_time, model_used and model_id, and its source_count is the
\* number of documents researcher_job returned.
C22_OkFields ==
    \A t \in Threads :
      (req[t].status = "done" /\ req[t].response.ok) =>
        /\ OkFields \subseteq DOMAIN req[t].response
        /\ req[t].response.source_count = Len(job[t].selected)

\* The request of thread t is answered after a search that gave five hits,
\* none of which failed, and a model call that returned the answer with the
\* markers [1] and [2].
FiveSources(t) ==
    /\ req[t].status = "done"
    /\ "none" \notin DOMAIN req[t].result
    /\ job[t].status = "returned"
    /\ job[t].top_k = ASK_TOP_K
    /\ Len(job[t].hits) = ASK_TOP_K
    /\ job[t].failed_urls = << >>
    /\ result[t].status = "returned"
    /\ result[t].origin = "model"
    /\ result[t].text = Answer

\* C23: with five well-formed documents for top_k = 5 and a model answer
\* holding [1] and [2], researcher_job returns the five documents in the
\* order of the hits and no synthetic one, the answer of /ask holds the
\* linked forms of [1] and [2], and citations has five entries, the n-th for
\* the n-th document.
C23_EndToEnd ==
    \A t \in Threads :
      FiveSources(t) =>
        LET docs == job[t].selected
            body == req[t].response
        IN  /\ Len(docs) = ASK_TOP_K
            /\ \A n \in 1 .. Len(docs) :
                 /\ docs[n].url = job[t].hits[n].url
                 /\ ~docs[n].synthetic
            /\ body.ok
            /\ "warning" \notin DOMAIN body
            /\ body.source_count = ASK_TOP_K
            /\ Holds(body.answer, Superscript(docs[1].url, 1))
            /\ Holds(body.answer, Superscript(docs[2].url, 2))
            /\ ~Holds(body.answer, << " " >> \o Marker(2))
            /\ Len(body.citations) = ASK_TOP_K
            /\ \A n \in 1 .. Len(body.citations) :
                 /\ StartsAt(body.citations[n], Marker(n), 1)
                 /\ Holds(body.citations[n], docs[n].title)
                 /\ Holds(body.citations[n], docs[n].url)

\* Such a request, with a document taken from the hit's own content and one
\* made by the hosted extraction.
C23_Witness ==
    \E t \in Threads :
      /\ FiveSources(t)
      /\ job[t].selected[1].via = "inline"
      /\ job[t].selected[2].via = "hosted"

Returned(t) == job[t].status = "returned" /\ ~job[t].alone

\* C25: every document of a list researcher_job returns has a text that is
\* not empty once stripped, or is marked synthetic: the documents made of a
\* hit's own content, those of the hosted extraction and those of the direct
\* fetch have such a text.
C25_TextOrSynthetic ==
    \A t \in Threads :
      Returned(t) =>
        \A n \in 1 .. Len(job[t].selected) :
          LET doc == job[t].selected[n]
          IN  /\ doc.text > 0 \/ doc.synthetic
              /\ doc.via \in { "inline", "hosted", "direct" } =>
                   /\ doc.text > 0
                   /\ ~doc.synthetic
              /\ doc.via = "inline" => doc.text > INLINE_MIN
              /\ doc.via = "hosted" => doc.text > EXTRACT_MIN
              /\ doc.via = "direct" => doc.text >= EXTRACT_MIN

\* A returned list with a document of each of the three kinds.
C25_Witness ==
    \E t \in Threads :
      /\ Returned(t)
      /\ \A via \in { "inline", "hosted", "direct" } :
           \E n \in 1 .. Len(job[t].selected) : job[t].selected[n].via = via

\* The position of the hit with this url among the hits of job j, or 0.
HitIndex(j, url) ==
    IF \E k \in 1 .. Len(j.hits) : j.hits[k].url = url
    THEN CHOOSE k \in 1 .. Len(j.hits) : j.hits[k].url = url
    ELSE 0

\* C26: in a list researcher_job returns no synthetic document stands before
\* a document that is not synthetic, and the documents that are not
\* synthetic come from hits, in the order of these hits.
C26_RealBeforeSynthetic ==
    \A t \in Threads :
      Returned(t) =>
        LET docs == job[t].selected
        IN  \A m, n \in 1 .. Len(docs) :
              m < n =>
                /\ docs[m].synthetic => docs[n].synthetic
                /\ ~docs[n].synthetic =>
                     /\ HitIndex(job[t], docs[m].url) > 0
                     /\ HitIndex(job[t], docs[m].url)
                          < HitIndex(job[t], docs[n].url)

\* A returned list with the documents of the first and of the third hit, the
\* second having failed, and a synthetic document after them.
C26_Witness ==
    \E t \in Threads :
      /\ Returned(t)
      /\ Len(job[t].selected) = 3
      /\ HitIndex(job[t], job[t].selected[1].url) = 1
      /\ HitIndex(job[t], job[t].selected[2].url) = 3
      /\ job[t].selected[3].synthetic
      /\ Len(job[t].failed_urls) = 1

\* The documents of job j that are not synthetic.
Real(j) == SelectSeq(j.selected, LAMBDA doc : ~doc.synthetic)

\* C27: researcher_job asks the search for 2 x top_k hits and takes them up
\* one after the other, each once and only while fewer than top_k documents
\* are selected; a hit with more than 100 characters of content is wrapped
\* without a call of fetch_and_extract, any other one gets one such call;
\* the url of a hit whose extraction failed is recorded and the loop goes
\* on; and the loop ends only with the hits exhausted or top_k documents
\* selected.
C27_CandidateLoop ==
    \A t \in Threads :
      (job[t].status # "none" /\ ~job[t].alone) =>
        LET j == job[t]
        IN  /\ j.num_results = 2 * j.top_k
            /\ Len(j.trail) <= Len(j.hits)
            /\ \A i \in 1 .. Len(j.trail) :
                 /\ j.trail[i].hit = i
                 /\ j.trail[i].had < j.top_k
                 /\ j.trail[i].how = "inline"
                      <=> j.hits[i].content > INLINE_MIN
            /\ pc[t] \in { "fx_hosted", "fx_sleep", "fx_direct" } =>
                 /\ j.trail # << >>
                 /\ j.trail[Len(j.trail)].how = "extract"
                 /\ j.next = Len(j.trail)
            /\ Returned(t) =>
                 /\ Len(Real(j)) + Len(j.failed_urls) = Len(j.trail)
                 /\ Len(j.trail) = Len(j.hits) \/ Len(Real(j)) = j.top_k
                 /\ \A i \in 1 .. Len(j.trail) :
                      LET url == j.hits[i].url
                          docs == SelectSeq(j.selected,
                                            LAMBDA doc : doc.url = url)
                          fails == SelectSeq(j.failed_urls,
                                             LAMBDA u : u = url)
                      IN  IF j.trail[i].how = "inline"
                          THEN /\ Len(docs) = 1 /\ fails = << >>
                               /\ docs[1].via = "inline"
                          ELSE /\ Len(docs) + Len(fails) = 1
                               /\ docs # << >> =>
                                    docs[1].via \in { "hosted", "direct" }

\* A returned job that wrapped a hit, extracted another and recorded the url
\* of one whose extraction failed.
C27_Witness ==
    \E t \in Threads :
      /\ Returned(t)
      /\ Len(job[t].failed_urls) = 1
      /\ \E n \in 1 .. Len(job[t].selected) : job[t].selected[n].via = "inline"
      /\ \E n \in 1 .. Len(job[t].selected) : job[t].selected[n].via = "hosted"
      /\ \E i \in 1 .. Len(job[t].trail) : job[t].trail[i].how = "extract"

\* C28: researcher_job adds synthetic documents after its loop if and only
\* if the loop selected fewer than max(2, min(top_k, 3)) documents, and then
\* exactly as many as bring the list to that number; every document it adds
\* is synthetic; a job whose loop selected nothing returns that number of
\* documents.
C28_TopUpToFloor ==
    \A t \in Threads :
      (job[t].status # "none" /\ ~job[t].alone) =>
        LET j == job[t]
            real == Len(Real(j))
            floor == Max(2, Min(j.top_k, 3))
        IN  /\ Len(j.selected) > real =>
                 /\ pc[t] \notin { "rj_search", "ss_sleep", "os_call", "os_ret",
                                   "rj_loop", "fx_hosted", "fx_sleep",
                                   "fx_direct" }
                 /\ real < floor
                 /\ Len(j.selected) <= floor
            /\ \A n \in 1 .. Len(j.selected) :
                 n > real => j.selected[n].synthetic
            /\ Returned(t) =>
                 /\ Len(j.selected) > real <=> real < floor
                 /\ real < floor => Len(j.selected) = floor
                 /\ real = 0 => Len(j.selected) = floor

\* A returned job for three documents whose loop selected one: two synthetic
\* documents were added.
C28_Witness ==
    \E t \in Threads :
      /\ Returned(t)
      /\ job[t].top_k = 3
      /\ Len(Real(job[t])) = 1
      /\ Len(job[t].selected) = 3

\* generated://content/n
Placeholder(n) == << "generated", ":", "//", "content", "/" >> \o Decimal(n)

\* C29: in a list researcher_job returns the synthetic document at position n
\* has the url generated://content/n, so that no two synthetic documents
\* share a url, and every other document has an http or https url: the
\* scheme of the url tells the synthetic documents from the others.
C29_UrlSchemes ==
    \A t \in Threads :
      Returned(t) =>
        LET docs == job[t].selected
        IN  /\ \A n \in 1 .. Len(docs) :
                 /\ docs[n].synthetic => docs[n].url = Placeholder(n)
                 /\ ~docs[n].synthetic =>
                      /\ Scheme(docs[n].url) \in { "http", "https" }
                      /\ is_valid_url(docs[n].url)
                 /\ docs[n].synthetic <=> Scheme(docs[n].url) = "generated"
            /\ \A m, n \in 1 .. Len(docs) :
                 (m # n /\ docs[m].synthetic /\ docs[n].synthetic) =>
                   docs[m].url # docs[n].url

\* A returned list of a document with an https url and, after it, the
\* synthetic documents generated://content/2 and generated://content/3.
C29_Witness ==
    \E t \in Threads :
      /\ Returned(t)
      /\ Scheme(job[t].selected[1].url) = "https"
      /\ Len(job[t].selected) = 3
      /\ job[t].selected[2].url = Placeholder(2)
      /\ job[t].selected[3].url = Placeholder(3)

\* The document the call of fetch_and_extract at hand has returned.
Fetched(j) == j.selected[Len(j.selected)]

\* C30: fetch_and_extract tries the hosted extraction first and returns its
\* result only when the stripped text is longer than 50 characters; the direct
\* fetch is attempted only after the hosted extraction has raised or given a
\* text that is not longer than 50; the call raises exactly when the direct
\* fetch raised or gave a text shorter than 50; and no document the call has
\* returned has a stripped text shorter than 50.
C30_HostedThenDirect ==
    \A t \in Threads :
      LET j == job[t]
          f == j.fetch
      IN  /\ pc[t] = "fx_direct" => f.hosted # "none" /\ f.ended = "none"
          /\ f.direct # "none" =>
               \/ f.hosted = "raised"
               \/ f.hosted = "answered" /\ f.hosted_text <= EXTRACT_MIN
          /\ (f.hosted = "answered" /\ f.hosted_text > EXTRACT_MIN) =>
               /\ f.direct = "none"
               /\ f.ended = "returned"
          /\ f.ended = "raised" <=>
               \/ f.direct = "raised"
               \/ f.direct = "answered" /\ f.direct_text < EXTRACT_MIN
          /\ f.ended = "returned" =>
               /\ Len(j.selected) > 0
               /\ Fetched(j).via \in { "hosted", "direct" }
               /\ Fetched(j).via = "hosted" =>
                    /\ f.direct = "none"
                    /\ Fetched(j).text = f.hosted_text
                    /\ Fetched(j).text > EXTRACT_MIN
               /\ Fetched(j).via = "direct" =>
                    /\ f.direct = "answered"
                    /\ Fetched(j).text = f.direct_text
          /\ \A i \in 1 .. Len(j.selected) :
               j.selected[i].via \in { "hosted", "direct" } =>
                 j.selected[i].text >= EXTRACT_MIN

\* The hosted extraction gave a text of just 50 characters, which is not
\* enough for it, and the direct fetch gave one of just 50, which is returned.
C30_Witness ==
    \E t \in Threads :
      LET f == job[t].fetch
      IN  /\ f.hosted = "answered"
          /\ f.hosted_text = EXTRACT_MIN
          /\ f.direct = "answered"
          /\ f.direct_text = EXTRACT_MIN
          /\ f.ended = "returned"
          /\ Fetched(job[t]).via = "direct"
          /\ Fetched(job[t]).text = EXTRACT_MIN

\* The document that create_synthetic_content has just handed to the top-up
\* loop of t.
Generated(t) == job[t].selected'[Len(job[t].selected) + 1]

\* C31: create_synthetic_content never raises: the LLM call behind it having
\* failed, it still returns a document with synthetic = true, a non-empty text
\* and error = CONTENT_GENERATION_FAILED; the call having succeeded, or none
\* having been needed, the document has synthetic = true and no error tag.
C31_SyntheticNeverRaises ==
    [][ \A t \in Threads :
          /\ (pc[t] = "sc_ret" /\ pc'[t] # "sc_ret") =>
               /\ pc'[t] = "rj_topup"
               /\ job'[t].status = "running"
               /\ Len(job'[t].selected) = Len(job[t].selected) + 1
               /\ Generated(t).synthetic
               /\ result[t].status = "returned" => Generated(t).error = ""
               /\ result[t].status # "returned" =>
                    /\ Generated(t).error = "CONTENT_GENERATION_FAILED"
                    /\ Generated(t).text > 0
          /\ (pc[t] = "rj_topup" /\ pc'[t] = "rj_topup"
                /\ job'[t] # job[t]) =>
               /\ job'[t].status = "running"
               /\ Len(job'[t].selected) = Len(job[t].selected) + 1
               /\ Generated(t).synthetic
               /\ Generated(t).error = "" ]_vars

\* One LLM call for synthetic content has returned and another has raised,
\* and both documents are in the list.
C31_Witness ==
    \E t \in Threads :
      /\ pc[t] = "rj_topup"
      /\ \E i, k \in 1 .. Len(job[t].selected) :
           /\ job[t].selected[i].synthetic
           /\ job[t].selected[i].error = ""
           /\ job[t].selected[i].title[1] = "Business Analysis"
           /\ job[t].query # "rice kano"
           /\ job[t].selected[k].synthetic
           /\ job[t].selected[k].error = "CONTENT_GENERATION_FAILED"
           /\ job[t].selected[k].text > 0

\* C32: in call_openrouter an answer 200 without the choices takes one
\* attempt: while attempts remain the call sleeps the backoff of that attempt
\* and goes on with the next one, and on the last attempt the exception
\* leaves the call as it was raised; a direct caller sees that very exception.
C32_MalformedRetried ==
    [][ \A t \in Threads :
          /\ (pc[t] = "inflight" /\ pc'[t] # "inflight"
                /\ tally'[t].last = "malformed") =>
               LET f == Top(stack[t])
               IN  IF f.attempt < f.max_retries - 1
                   THEN /\ pc'[t] = "backoff"
                        /\ wake'[t] = Backoff(f.attempt)
                        /\ stack'[t] = stack[t]
                        /\ result'[t] = result[t]
                   ELSE /\ Len(stack'[t]) < Len(stack[t])
                        /\ stack'[t] = << >> =>
                             /\ pc'[t] = ret[t]
                             /\ result'[t].status = "raised"
                             /\ result'[t].text =
                                  << "Invalid response format from OpenRouter API" >>
                        /\ stack'[t] # << >> =>
                             /\ pc'[t] = "backoff"
                             /\ result'[t] = result[t]
          /\ (pc[t] = "backoff" /\ pc'[t] # "backoff") =>
               /\ pc'[t] = "loop"
               /\ Len(stack'[t]) = Len(stack[t])
               /\ Top(stack'[t]).attempt = Top(stack[t]).attempt + 1
               /\ Top(stack'[t]).max_retries = Top(stack[t]).max_retries ]_vars

\* A call with three attempts met an answer 200 without choices on its last
\* attempt, after two backoff sleeps, and has raised.
C32_Witness ==
    \E t \in Threads :
      /\ result[t].status = "raised"
      /\ result[t].text = << "Invalid response format from OpenRouter API" >>
      /\ tally[t].last = "malformed"
      /\ tally[t].budget = MAX_RETRIES
      /\ tally[t].posts = MAX_RETRIES
      /\ tally[t].sleeps = MAX_RETRIES - 1
      /\ tally[t].switches = 0

\* The seconds a Retry-After header asks for: its number, the seconds from
\* the answer to its date, or 60 without the header.
HintSeconds(hint) ==
    IF hint = << >> THEN DEFAULT_RETRY_AFTER
    ELSE IF int(hint) >= 0 THEN int(hint)
    ELSE int(<< hint[2] >>)

\* C33: after an answer 429 on an attempt a that is not the last one,
\* call_openrouter waits min(hint, BACKOFF_FACTOR^a * RATE_LIMIT_DELAY)
\* seconds plus a jitter in [0, 1) before the next attempt, hint being the
\* Retry-After of the answer (60 without the header); so the wait before the
\* jitter is never longer than the hint.
C33_WaitWithinHint ==
    [][ \A t \in Threads :
          (pc[t] = "inflight" /\ pc'[t] # "inflight"
             /\ tally'[t].last = "s429" /\ More(Top(stack[t]))) =>
            /\ pc'[t] = "backoff"
            /\ stack'[t] = stack[t]
            /\ \E jitter \in Jitters :
                 wake'[t] =
                   Seconds(Min(HintSeconds(tally'[t].hint),
                               Pow(BACKOFF_FACTOR, Top(stack[t]).attempt)
                                 * RATE_LIMIT_DELAY)) + jitter ]_vars

\* The result synthesize_from_sources gave to the request of t is a degraded
\* one.
DegradedResult(t) ==
    /\ req[t].status = "done"
    /\ "error" \in DOMAIN req[t].result
    /\ req[t].result.error = "API_RATE_LIMITED"

\* C34: when synthesize_from_sources returns a result with error =
\* API_RATE_LIMITED, /ask answers with ok = true, a warning, and the answer
\* and the citations of that result, with status 200 and never a 5xx.
C34_DegradedIsOk ==
    \A t \in Threads :
      DegradedResult(t) =>
        /\ req[t].response.ok
        /\ "warning" \in DOMAIN req[t].response
        /\ req[t].response.answer = req[t].result.answer
        /\ req[t].response.citations = req[t].result.citations
        /\ req[t].response.status_code = HTTP_OK
        /\ req[t].response.status_code < HTTP_SERVER_ERROR

\* The LLM refused every request of the synthesis, and /ask has answered with
\* the degraded body, which cites the documents found.
C34_Witness ==
    \E t \in Threads :
      /\ DegradedResult(t)
      /\ req[t].response.ok
      /\ req[t].response.citations # << >>
      /\ result[t].status = "raised"

\* C35: in every degraded result of synthesize_from_sources, each id of
\* suggested_alternatives is an id of the model catalog and is another model
\* than the one that has just failed, the model_id of the result.
C35_AlternativesDiffer ==
    (synthesis.status = "done" /\ "error" \in DOMAIN synthesis.result) =>
      LET r == synthesis.result
      IN  \A i \in 1 .. Len(r.suggested_alternatives) :
            /\ r.suggested_alternatives[i] \in AVAILABLE_MODELS
            /\ r.suggested_alternatives[i] # r.model_id

\* C36: for every question that passes the validation, and whatever the
\* search, the extractions and the LLM calls do, /ask answers with ok = true
\* and never with NO_SOURCES_FOUND or RESEARCH_FAILED: researcher_job comes
\* back with a list that is not empty, never with an exception, and a failed
\* synthesis is answered with the degraded body.
C36_AlwaysOk ==
    \A t \in Threads :
      /\ pc[t] \in { "as_sources", "as_synth" } =>
           /\ job[t].status = "returned"
           /\ job[t].selected # << >>
      /\ (req[t].status = "done"
            /\ ~RaisesValueError(req[t].question, req[t].model)) =>
           /\ req[t].response.ok
           /\ "error_type" \notin DOMAIN req[t].response
           /\ req[t].response.status_code = HTTP_OK
           /\ result[t].status = "raised" =>
                /\ "warning" \in DOMAIN req[t].response
                /\ req[t].result.error = "API_RATE_LIMITED"

\* The search raised, no LLM call went well, and /ask has answered with the
\* degraded body over documents that carry the error tag.
C36_Witness ==
    \E t \in Threads :
      /\ req[t].status = "done"
      /\ ~RaisesValueError(req[t].question, req[t].model)
      /\ job[t].search = "raised"
      /\ \A i \in 1 .. Len(job[t].selected) :
           job[t].selected[i].error = "CONTENT_GENERATION_FAILED"
      /\ result[t].status = "raised"
      /\ req[t].response.ok
      /\ req[t].response.source_count = TARGET_SOURCES

\* C37 (as stated): call_openrouter returns the text of
\* generate_fallback_response only when every attempt ended with a status
\* that is neither 200 nor an error, or when its retry budget is not positive.
C37_FallbackOnlyUnanswered ==
    \A t \in active :
      (Completed(t) /\ result[t].origin = "fallback") =>
        \/ tally[t].budget <= 0
        \/ ~tally[t].erred

\* C37 (amended): call_openrouter returns the text of
\* generate_fallback_response exactly when its last attempt ended with a
\* status that is neither 200 nor an error, whatever the attempts before it
\* met, or when its retry budget is not positive; when its last attempt ends
\* with a 4xx or 5xx status, a timeout, a connection error or any other
\* exception, the call raises.
C37_FallbackOnLastUnanswered ==
    \A t \in active :
      Completed(t) =>
        /\ result[t].origin = "fallback" <=>
             \/ tally[t].budget <= 0
             \/ tally[t].last = "other"
        /\ (tally[t].budget > 0 /\ tally[t].last \notin { "ok", "other" }) =>
             result[t].status = "raised"
        /\ result[t].origin = "fallback" =>
             /\ result[t].status = "returned"
             /\ result[t].text \in
                  { generate_fallback_response(m) : m \in AVAILABLE_MODELS }

\* A call with three attempts was answered 429 and then twice with a status
\* below 400 other than 200, and has returned the fallback text.
C37_Witness ==
    \E t \in active :
      /\ Completed(t)
      /\ result[t].origin = "fallback"
      /\ tally[t].budget = MAX_RETRIES
      /\ tally[t].posts = MAX_RETRIES
      /\ tally[t].sleeps = 1
      /\ tally[t].erred
      /\ tally[t].last = "other"

\* The calls of wait_if_needed that threads 1 .. n have completed.
RECURSIVE Passed(_)
Passed(n) == IF n = 0 THEN 0 ELSE tally[n].waits + Passed(n - 1)

\* C38 (as stated): after any interleaving of concurrent callers of
\* wait_if_needed on the shared rate_limiter, request_count is the number of
\* calls of wait_if_needed that have completed, no increment being lost, and
\* last_request_time never decreases.
C38_NoLostIncrement ==
    /\ []((\A t \in Threads : pc[t] \notin { "wait_load", "wait_store" })
            => request_count = Passed(NThreads))
    /\ [][last_request_time' >= last_request_time]_vars

\* The search endpoint answered 200 and serper_search has ended with no hit:
\* none of the results had a valid http(s) url.
PrimaryEmpty(t) ==
    /\ job[t].answer = "s200"
    /\ pc[t] \notin { "rj_search", "ss_sleep", "os_call", "os_ret" }
    /\ job[t].hits = << >>

\* C39: when the primary search provider answers 200 with no hit that has a
\* valid http(s) url, serper_search returns an empty list without calling
\* openrouter_search and without the catalog of get_fallback_sources, and
\* researcher_job then returns synthetic documents only.
C39_EmptyPrimaryStands ==
    \A t \in Threads :
      /\ job[t].answer = "s200" =>
           /\ job[t].secondary = 0
           /\ pc[t] \notin { "os_call", "os_ret" }
           /\ job[t].search = "primary"
      /\ PrimaryEmpty(t) =>
        /\ job[t].trail = << >>
        /\ job[t].failed_urls = << >>
        /\ \A i \in 1 .. Len(job[t].selected) : job[t].selected[i].synthetic
        /\ job[t].status = "returned" =>
             Len(job[t].selected) = Floor(job[t].top_k)

\* researcher_job has returned three synthetic documents after a search that
\* the endpoint answered with 200 and no usable result.
C39_Witness ==
    \E t \in Threads :
      /\ PrimaryEmpty(t)
      /\ job[t].status = "returned"
      /\ "search" \in traffic[t]
      /\ Len(job[t].selected) = TARGET_SOURCES
      /\ \A i \in 1 .. Len(job[t].selected) : job[t].selected[i].synthetic

\* The labels call_openrouter returns to when the Researcher has called it:
\* openrouter_search and create_synthetic_content.
ResearcherCalls == { "os_ret", "sc_ret" }

\* Thread t sends a request to the LLM in this step.
Posts(t) == pc[t] = "post" /\ pc'[t] = "inflight"

\* Thread t switches to the default model after a 400 in this step.
Switches(t) == stack[t] # << >> /\ Len(stack'[t]) > Len(stack[t])

\* C40: every request the Researcher's LLM calls send (URL discovery in
\* openrouter_search, content generation in create_synthetic_content) names
\* the default model, whatever model the request to /ask selected; a request
\* naming another model is sent by the synthesis call only and names the model
\* selected, which the first request of the synthesis call always names; and
\* only the synthesis call switches to the default model after a 400.
C40_ResearcherOnDefault ==
    [][ \A t \in Threads :
          /\ (Posts(t) /\ ret[t] \in ResearcherCalls) =>
               /\ Top(stack[t]).model = DEFAULT_MODEL
               /\ outbound'[Len(outbound')].model = DEFAULT_MODEL
          /\ (Posts(t) /\ Top(stack[t]).model # DEFAULT_MODEL) =>
               /\ ret[t] = "as_synth"
               /\ Top(stack[t]).model = req[t].selected_model
               /\ req[t].selected_model = req[t].model
          /\ (Posts(t) /\ ret[t] = "as_synth" /\ tally[t].posts = 0) =>
               Top(stack[t]).model = req[t].selected_model
          /\ Switches(t) => ret[t] = "as_synth" ]_vars

\* The request selected another model than the default one; the URLs came from
\* the LLM, the synthesis call met a 400 on the model selected, and its next
\* request, to the default model, is in flight.
C40_Witness ==
    \E t \in Threads :
      /\ req[t].status = "running"
      /\ req[t].selected_model # DEFAULT_MODEL
      /\ job[t].search = "secondary"
      /\ \E i \in 1 .. Len(job[t].selected) :
           /\ job[t].selected[i].via = "generated"
           /\ job[t].selected[i].error = ""
      /\ ret[t] = "as_synth"
      /\ tally[t].first = req[t].selected_model
      /\ tally[t].switches = 1
      /\ pc[t] = "inflight"
      /\ Top(stack[t]).model = DEFAULT_MODEL

























====
